---- MODULE Spec2Model ----
(***************************************************************************)
(* Recommendation scoring and collection synchronization of Immaculaterr.  *)
(*                                                                         *)
(* The model runs one of three programs, chosen by `mode` in Init:         *)
(*   "score"   - repeated TV scoring passes (run_tv_pipeline) interleaved  *)
(*               with the TV refresher's metadata enrichment;              *)
(*   "refresh" - one refresh_collection_with_points run (scoring by        *)
(*               build_final_items_with_points, then a diff update);       *)
(*   "apply"   - one apply_collection_state_to_plex run (snapshot apply).  *)
(* Every media-server call is one step whose outcome the server chooses.   *)
(* Further specifications study one part alone: RetrySpec (retry_utils),   *)
(* StoreSpec (the points file and the tiered order), AgeSpec (a series of  *)
(* passes that never recommend one show), RefSpec (a refresher and a       *)
(* scoring pass on the same points file) and MainSpec (the entry points).  *)
(***************************************************************************)
EXTENDS Integers, Sequences, FiniteSets, TLC

\* ---------------------------------------------------------------- bounds
MaxPasses == 3
MaxRecs == 2
MaxSnap == 3
MaxRetries == 2
MaxMarkers == 2
MaxFileKeys == 2
MaxTierKeys == 3
MaxAge == 2
MaxRefPasses == 1

\* ------------------------------------------------------ program constants
MAX_POINTS == 50
DEFAULT_MAX_RETRIES == 3
DEFAULT_RETRY_DELAY == 2
DEFAULT_BACKOFF_MULTIPLIER == 2

\* Logical shows of the TV domain: show i has normalized title i and TVDB id i.
Items == 1..2
\* Rating keys known to the library, by kind.
MovieKeys == 1..3
ShowKeys == {4}
RatingKeys == MovieKeys \cup ShowKeys
\* Points values a stored file may hold at the start of a run.
StartPoints == {0, 1, 2}

NoKey == <<"none", 0>>
None == 0
\* main() has not returned.
NoExit == -1

VARIABLES
    mode,              \* which program runs
    pc,                \* position in the running program
    passes,            \* scoring passes run so far
    points_data,       \* TV points store: score key -> [points, tvdb_id]
    recs,              \* the recommendations of the last scoring pass
    tvdb_known,        \* recommended shows whose TVDB id the last pass knew
    stats,             \* the counters the last scoring pass logged
    last_op,           \* the operation that produced this state
    \* --- the media server
    coll_exists,       \* the remote collection exists
    members,           \* its members (rating keys) in display order
    sort_mode,         \* its sort mode
    \* --- locals of apply_collection_state_to_plex / refresh_collection_with_points
    collection,        \* the collection handle, or "None"
    coll_found,        \* section.collection() found the collection
    existing_items,    \* members fetched at the start
    rating_keys,       \* the snapshot's rating_keys
    allowed_types,     \* the caller's allowed_types keyword, or "absent"
    k_idx,             \* rating keys resolved so far
    fetched,           \* what each lookup-by-key ended with
    desired_items,
    failed_keys,
    filtered_non_movies,
    attempt,           \* retry_with_backoff's attempt index
    remove_status,     \* "none", "ok" or "failed": how the removal ended
    add_status,        \* the same for the add or create
    result,            \* "running", "returned" or "raised"
    raised_at,         \* the position an exception left the function from
    \* --- locals of refresh_collection_with_points
    movie_points,      \* movie points store: rating key -> points
    plex_movies_this_run,
    randomize,
    final_items,
    current,           \* the second membership fetch
    to_remove,
    to_add,
    \* --- locals of _apply_custom_order
    ordered_items,
    o_idx,
    prev_id,
    current_collection_items,
    failed_moves,
    successful_moves,
    \* --- the calls that reached the server
    calls,             \* set of [op, arg]
    last_call,         \* the call issued by the latest step, or "none"
    moves,             \* the move calls in order: [item, after, ok]
    \* --- one call of retry_with_backoff or safe_execute
    max_retries,
    raise_on_final_failure,
    default_return,
    history,           \* what each invocation of the operation did
    sleeps,            \* the delays slept, in order
    last_exception,
    ret,               \* the value returned, or NoReturn
    propagated,        \* the exception that left the function, or NoExc
    \* --- the points file and the store of a run
    file,              \* [exists, readable, text]: the file on disk
    pre,               \* the store the file held when the run began
    store,             \* points_data in memory
    loaded,            \* what the latest load returned
    load_raised,       \* whether the latest load raised
    ordered_keys,      \* the refresher's tiered order
    \* --- one run of an entry point
    entry_point,       \* which main() runs, or "none"
    dry_run,           \* --dry-run
    exit_code,         \* what main() returned, or NoExit
    connects,          \* PlexServer() constructions so far
    exc,               \* the exception main() caught, or "none"
    missing_keys,      \* failed_keys of the refresher's own lookup
    media_type,        \* the orchestrator's second argument
    interrupted        \* a KeyboardInterrupt was delivered

scoreVars == <<passes, points_data, recs, tvdb_known, stats>>

serverVars == <<coll_exists, members, sort_mode>>

resolveVars == <<rating_keys, allowed_types, k_idx, fetched, desired_items,
                 failed_keys, filtered_non_movies>>

runVars == <<collection, coll_found, existing_items, attempt, remove_status,
             add_status, result, raised_at>>

refreshVars == <<movie_points, plex_movies_this_run, randomize, final_items,
                 current, to_remove, to_add>>

orderVars == <<ordered_items, o_idx, prev_id, current_collection_items,
               failed_moves, successful_moves>>

logVars == <<calls, last_call, moves>>

retryVars == <<max_retries, raise_on_final_failure, default_return, history,
               sleeps, last_exception, ret, propagated>>

fileVars == <<file, pre, store, loaded, load_raised, ordered_keys>>

mainVars == <<entry_point, dry_run, exit_code, connects, exc, missing_keys,
              media_type, interrupted>>

syncVars == <<serverVars, resolveVars, runVars, refreshVars, orderVars, logVars>>

\* ----------------------------------------------------------- dict helpers
Put(f, k, v) == [x \in (DOMAIN f) \cup {k} |-> IF x = k THEN v ELSE f[x]]

Del(f, k) == [x \in (DOMAIN f) \ {k} |-> f[x]]

EmptyMap == [x \in {} |-> 0]

RECURSIVE SeqsUpTo(_, _)
SeqsUpTo(S, n) ==
    IF n = 0 THEN {<<>>}
    ELSE LET shorter == SeqsUpTo(S, n - 1)
         IN shorter \cup {Append(s, x) : s \in {t \in shorter : Len(t) = n - 1}, x \in S}

Range(s) == {s[i] : i \in 1..Len(s)}

Max(S) == CHOOSE x \in S : \A y \in S : y <= x

NoRepeat(s) == \A i, j \in 1..Len(s) : i # j => s[i] # s[j]

\* ------------------------------------------------------- TV scoring pass
TitleKey(i) == <<"title", i>>

TvdbKey(i) == <<"tvdb", i>>

ScoreKeys == {TitleKey(i) : i \in Items} \cup {TvdbKey(i) : i \in Items}

\* The logical show a score key stands for.
ItemOf(k) == k[2]

\* _tv_points_key: the TVDB key when a TVDB id is known, else the title key.
tv_points_key(title, tvdb_id) ==
    IF tvdb_id # None THEN TvdbKey(tvdb_id) ELSE TitleKey(title)

get_points(entry) == entry.points

\* Keys whose entry carries TVDB id tid.
KeysWithTvdb(pd, tid) == {k \in DOMAIN pd : pd[k].tvdb_id = tid}

\* existing_tvdb_to_key: one key per TVDB id found in the store; when several
\* entries carry the same id the file's key order decides which one is kept.
ExistingTvdbToKey(pd) ==
    {f \in [Items -> ScoreKeys \cup {NoKey}] :
        \A t \in Items :
            IF KeysWithTvdb(pd, t) = {} THEN f[t] = NoKey
            ELSE f[t] \in KeysWithTvdb(pd, t)}

\* The tvdb_id the pass knows for a recommended title this run.
TvdbIdOf(title, known) == IF title \in known THEN title ELSE None

MigrateKey(pd, key, old_key, tvdb_id) ==
    IF /\ tvdb_id # None
       /\ old_key # NoKey
       /\ old_key # key
       /\ old_key \in DOMAIN pd
       /\ key \notin DOMAIN pd
    THEN Put(Del(pd, old_key), key, pd[old_key])
    ELSE pd

Min(a, b) == IF a < b THEN a ELSE b

\* A boost of one point, capped at the maximum.
BoostedByOne(entry) == Min(MAX_POINTS, entry.points + 1)

\* entry["points"] = 50
BoostedPoints(entry) == MAX_POINTS

\* One iteration of the loop over recs.
SuggestOne(st, title, known, idx) ==
    LET tvdb_id == TvdbIdOf(title, known)
        key == tv_points_key(title, tvdb_id)
        old_key == IF tvdb_id # None THEN idx[tvdb_id] ELSE NoKey
        pd1 == MigrateKey(st.pd, key, old_key, tvdb_id)
        entry == IF key \in DOMAIN pd1 THEN pd1[key]
                 ELSE [points |-> 0, tvdb_id |-> None]
        entry2 == [points |-> BoostedPoints(entry),
                   tvdb_id |-> IF tvdb_id # None THEN tvdb_id ELSE entry.tvdb_id]
    IN [pd |-> Put(pd1, key, entry2),
        suggested_keys |-> st.suggested_keys \cup {key}]

RECURSIVE SuggestAll(_, _, _, _)
SuggestAll(st, rs, known, idx) ==
    IF rs = <<>> THEN st
    ELSE SuggestAll(SuggestOne(st, Head(rs), known, idx), Tail(rs), known, idx)

\* A decay that deletes at zero but does not store the decrement.
DecayNotStored(pd, suggested_keys) ==
    [k \in {x \in DOMAIN pd : x \in suggested_keys \/ pd[x].points - 1 > 0} |-> pd[k]]

\* A decay that keeps an entry that reached zero.
DecayKeepsZero(pd, suggested_keys) ==
    [k \in {x \in DOMAIN pd : x \in suggested_keys \/ pd[x].points - 1 >= 0} |->
        IF k \in suggested_keys THEN pd[k]
        ELSE [pd[k] EXCEPT !.points = pd[k].points - 1]]

\* A decay that removes an entry one pass early, when it reaches one point.
DecayRemovesAtOne(pd, suggested_keys) ==
    [k \in {x \in DOMAIN pd : x \in suggested_keys \/ pd[x].points - 1 > 1} |->
        IF k \in suggested_keys THEN pd[k]
        ELSE [pd[k] EXCEPT !.points = pd[k].points - 1]]

\* "Decay everything else by 1, remove at 0".
DecayOthers(pd, suggested_keys) ==
    LET keep == {k \in DOMAIN pd :
                    k \in suggested_keys \/ get_points(pd[k]) - 1 > 0}
    IN [k \in keep |->
            IF k \in suggested_keys THEN pd[k]
            ELSE [pd[k] EXCEPT !.points = get_points(pd[k]) - 1]]

\* The "tv_points_update" step: the new store and the counters it logs.
tv_points_update(pd, rs, known, idx) ==
    LET st == SuggestAll([pd |-> pd, suggested_keys |-> {}], rs, known, idx)
        out == DecayOthers(st.pd, st.suggested_keys)
        others == (DOMAIN st.pd) \ st.suggested_keys
    IN [pd |-> out,
        stats |-> [suggested_now |-> Cardinality(st.suggested_keys),
                   decayed |-> Cardinality(others \cap DOMAIN out),
                   removed |-> Cardinality(others \ DOMAIN out),
                   total |-> Cardinality(DOMAIN out)]]

\* run_tv_pipeline: load the store, score, save.
RunTvPipeline ==
    /\ mode = "score"
    /\ passes < MaxPasses
    /\ \E idx \in ExistingTvdbToKey(points_data), rs \in SeqsUpTo(Items, MaxRecs) :
        \E known \in SUBSET Range(rs) :
            LET res == tv_points_update(points_data, rs, known, idx)
            IN /\ points_data' = res.pd
               /\ stats' = res.stats
               /\ recs' = rs
               /\ tvdb_known' = known
    /\ passes' = passes + 1
    /\ last_op' = "tv_pass"
    /\ UNCHANGED <<mode, pc, syncVars>>
    /\ UNCHANGED <<retryVars, fileVars, mainVars>>

\* TV refresher: every entry with points > 0 that resolves to a show of the
\* library is enriched with the show's TVDB id, and the store is saved.
EnrichEntries(pd, inPlex) ==
    [k \in DOMAIN pd |->
        IF get_points(pd[k]) > 0 /\ ItemOf(k) \in inPlex
        THEN [pd[k] EXCEPT !.tvdb_id = ItemOf(k)]
        ELSE pd[k]]

TvRefresherEnrich ==
    /\ mode = "score"
    /\ \E inPlex \in SUBSET Items :
        /\ EnrichEntries(points_data, inPlex) # points_data
        /\ points_data' = EnrichEntries(points_data, inPlex)
    /\ last_op' = "tv_refresher"
    /\ UNCHANGED <<mode, pc, passes, recs, tvdb_known, stats, syncVars>>
    /\ UNCHANGED <<retryVars, fileVars, mainVars>>

\* ------------------------------------------------------------ retry_utils
\* How one attempt of a server call ends: it returns, or raises an error that
\* is_retryable_error classifies as retryable or as permanent.
Outcomes == {"ok", "retryable", "permanent"}

\* A loop that allows one attempt too many.
RetryStepOneMore(att, outcome, retries, raise_final) ==
    IF outcome = "ok" THEN "success"
    ELSE IF outcome = "permanent"
         THEN (IF raise_final THEN "raise" ELSE "failure")
    ELSE IF att <= retries THEN "again"
    ELSE IF raise_final THEN "raise" ELSE "failure"

\* A loop that swallows the final failure whatever raise_on_final_failure is.
RetryStepNeverRaises(att, outcome, retries, raise_final) ==
    IF outcome = "ok" THEN "success"
    ELSE IF outcome = "permanent" THEN "failure"
    ELSE IF att < retries THEN "again"
    ELSE "failure"

\* One iteration of retry_with_backoff's loop at attempt index att: "success"
\* (return (result, True)), "again" (sleep, next attempt), "failure" (return
\* (None, False)) or "raise".
RetryStep(att, outcome, retries, raise_final) ==
    IF outcome = "ok" THEN "success"
    ELSE IF outcome = "permanent"
         THEN (IF raise_final THEN "raise" ELSE "failure")
    ELSE IF att < retries THEN "again"
    ELSE IF raise_final THEN "raise" ELSE "failure"

\* retry_with_backoff's default, raise_on_final_failure=True.
RaiseOnFinalFailureDefault == TRUE

\* The retry settings of the collection calls: max_retries=3,
\* raise_on_final_failure=False.
RemoveRaisesOnFinalFailure == FALSE

AddRaisesOnFinalFailure == FALSE

\* ------------------------------------------------------- the media server
Kind(k) == IF k \in MovieKeys THEN "movie" ELSE "show"

Title(k) == k

RemoveFrom(ms, items) == SelectSeq(ms, LAMBDA x : x \notin Range(items))

RECURSIVE AddTo(_, _)
AddTo(ms, items) ==
    IF items = <<>> THEN ms
    ELSE AddTo(IF Head(items) \in Range(ms) THEN ms ELSE Append(ms, Head(items)),
               Tail(items))

IndexOf(ms, x) == CHOOSE i \in 1..Len(ms) : ms[i] = x

\* A move that ignores its anchor and always puts the item first.
MoveIgnoresAnchor(ms, item, after) ==
    IF item \notin Range(ms) THEN ms
    ELSE <<item>> \o RemoveFrom(ms, <<item>>)

\* PUT /library/collections/{cid}/items/{item}/move[?after={after}]
MoveItem(ms, item, after) ==
    IF item = after \/ item \notin Range(ms) THEN ms
    ELSE LET rest == RemoveFrom(ms, <<item>>)
         IN IF after = None \/ after \notin Range(rest) THEN <<item>> \o rest
            ELSE LET p == IndexOf(rest, after)
                 IN SubSeq(rest, 1, p) \o <<item>> \o SubSeq(rest, p + 1, Len(rest))

Call(op, arg) == [op |-> op, arg |-> arg]

Ops == {c.op : c \in calls}

\* ------------------------------------------------ program order of a run
\* An order in which the add block runs before the remove block.
StepAfterAddFirst(p) ==
    CASE p = "a_call" -> "a_connect"
      [] p = "a_connect" -> "a_collection"
      [] p = "a_collection" -> "a_resolve"
      [] p = "a_resolve" -> "a_add"
      [] p = "a_add" -> "a_remove"
      [] p = "a_remove" -> "a_order"
      [] p = "a_create_art" -> "a_order"
      [] p = "a_order" -> "a_art"
      [] p = "a_art" -> "done"
      [] p = "r_collection" -> "r_current"
      [] p = "r_current" -> "r_add"
      [] p = "r_add" -> "r_remove"
      [] p = "r_remove" -> "r_art"
      [] p = "r_art" -> "r_order"
      [] p = "r_order" -> "done"
      [] OTHER -> "done"

\* The block that follows block p in the function's text.
StepAfter(p) ==
    CASE p = "a_call" -> "a_connect"
      [] p = "a_connect" -> "a_collection"
      [] p = "a_collection" -> "a_resolve"
      [] p = "a_resolve" -> "a_remove"
      [] p = "a_remove" -> "a_add"
      [] p = "a_add" -> "a_order"
      [] p = "a_create_art" -> "a_order"
      [] p = "a_order" -> "a_art"
      [] p = "a_art" -> "done"
      [] p = "r_collection" -> "r_current"
      [] p = "r_current" -> "r_remove"
      [] p = "r_remove" -> "r_add"
      [] p = "r_add" -> "r_art"
      [] p = "r_art" -> "r_order"
      [] p = "r_order" -> "done"
      [] OTHER -> "done"

\* Where _apply_custom_order returns to.
OrderReturn == IF mode = "apply" THEN StepAfter("a_order") ELSE StepAfter("r_order")

Raise(at) ==
    /\ result' = "raised"
    /\ raised_at' = at
    /\ pc' = "done"

\* --------------------------------------------------- _apply_custom_order
\* An anchor that advances to the item whether or not its move succeeded.
AnchorAlwaysAdvances(prev, item_id, ok) == item_id

\* An anchor that never advances: every move is a move to the front.
AnchorNeverAdvances(prev, item_id, ok) == prev

\* prev_id after a move call: advanced only when the move succeeded.
AnchorAfterMove(prev, item_id, ok) == IF ok THEN item_id ELSE prev

\* collection.sortUpdate(sort="custom"); any failure returns at once.
\* A failed sort switch that lets the reordering go on.
SortFailureIgnored(ok) == "o_items"

\* collection.sortUpdate(sort="custom"): on an error, return at once.
AfterSort(ok) == IF ok THEN "o_items" ELSE OrderReturn

\* A skipped item that becomes the anchor.
AnchorAdvancesOnSkip(prev, item_id) == item_id

\* prev_id after an item that is not in the collection: `continue`.
AnchorAfterSkip(prev, item_id) == prev

\* A loop that stays on an item whose move failed and tries it again.
FailedMoveRetried(i, ok) == IF ok THEN i + 1 ELSE i

\* The for loop over ordered_items: after a move call, failed or not, the
\* next item.
IndexAfterMove(i, ok) == i + 1

\* A failed move whose error leaves the function.
MoveErrorEscapes(p) == "raise"

\* The except clause around a move: record it and `continue` with the loop.
AfterMoveError(p) == p

OrderSort ==
    /\ pc = "o_sort"
    /\ IF collection = "None"
       THEN /\ pc' = OrderReturn
            /\ last_call' = "none"
            /\ UNCHANGED <<sort_mode, calls, prev_id, failed_moves, successful_moves>>
       ELSE \E ok \in BOOLEAN :
            /\ calls' = calls \cup {Call("sort", <<>>)}
            /\ last_call' = "sort"
            /\ sort_mode' = IF ok THEN "custom" ELSE sort_mode
            /\ pc' = AfterSort(ok)
            /\ prev_id' = None
            /\ failed_moves' = <<>>
            /\ successful_moves' = 0
    /\ UNCHANGED <<mode, scoreVars, last_op, coll_exists, members, resolveVars,
                   runVars, refreshVars, ordered_items, o_idx,
                   current_collection_items, moves>>
    /\ UNCHANGED <<retryVars, fileVars, mainVars>>

\* current_collection_items = {ratingKey of collection.items()}, or set() on error.
OrderItems ==
    /\ pc = "o_items"
    /\ \E ok \in BOOLEAN :
        current_collection_items' = IF ok THEN Range(members) ELSE {}
    /\ o_idx' = 0
    /\ pc' = "o_loop"
    /\ last_call' = "none"
    /\ UNCHANGED <<mode, scoreVars, last_op, serverVars, resolveVars, runVars,
                   refreshVars, ordered_items, prev_id, failed_moves,
                   successful_moves, calls, moves>>
    /\ UNCHANGED <<retryVars, fileVars, mainVars>>

\* One iteration of the loop over ordered_items (or its exit).
OrderLoop ==
    /\ pc = "o_loop"
    /\ IF o_idx = Len(ordered_items)
       THEN /\ pc' = OrderReturn
            /\ last_call' = "none"
            /\ UNCHANGED <<members, o_idx, prev_id, failed_moves,
                           successful_moves, calls, moves, result, raised_at>>
       ELSE LET item_id == ordered_items[o_idx + 1]
            IN /\ IF item_id \notin current_collection_items
                  THEN /\ o_idx' = o_idx + 1
                       /\ failed_moves' = Append(failed_moves,
                              [item_id |-> item_id, reason |-> "not in collection"])
                       /\ prev_id' = AnchorAfterSkip(prev_id, item_id)
                       /\ last_call' = "none"
                       /\ pc' = pc
                       /\ UNCHANGED <<members, successful_moves, calls, moves,
                                      result, raised_at>>
                  ELSE LET prev == IF prev_id # None /\ prev_id \notin current_collection_items
                                   THEN None ELSE prev_id
                       IN \E ok \in BOOLEAN :
                           /\ o_idx' = IndexAfterMove(o_idx, ok)
                           /\ calls' = calls \cup {Call("move", <<item_id, prev>>)}
                           /\ last_call' = "move"
                           /\ moves' = Append(moves, [item |-> item_id, after |-> prev, ok |-> ok])
                           /\ members' = IF ok THEN MoveItem(members, item_id, prev) ELSE members
                           /\ prev_id' = AnchorAfterMove(prev, item_id, ok)
                           /\ successful_moves' = IF ok THEN successful_moves + 1
                                                  ELSE successful_moves
                           /\ failed_moves' = IF ok THEN failed_moves
                                              ELSE Append(failed_moves,
                                                     [item_id |-> item_id, reason |-> "error"])
                           /\ IF ~ok /\ AfterMoveError(pc) = "raise"
                              THEN Raise(pc)
                              ELSE /\ pc' = IF ok THEN pc ELSE AfterMoveError(pc)
                                   /\ UNCHANGED <<result, raised_at>>
    /\ UNCHANGED <<mode, scoreVars, last_op, coll_exists, sort_mode, resolveVars,
                   collection, coll_found, existing_items, attempt, remove_status,
                   add_status, refreshVars, ordered_items, current_collection_items>>
    /\ UNCHANGED <<retryVars, fileVars, mainVars>>

\* The loop of _apply_custom_order as a function, for a run in which the
\* membership snapshot was read and every move succeeds: the order of the
\* collection after the items of ordered from position i on were handled.
RECURSIVE ImposeFrom(_, _, _, _)
ImposeFrom(ms, ordered, i, prev) ==
    IF i > Len(ordered) THEN ms
    ELSE IF ordered[i] \notin Range(ms)
         THEN ImposeFrom(ms, ordered, i + 1, AnchorAfterSkip(prev, ordered[i]))
    ELSE ImposeFrom(MoveItem(ms, ordered[i], prev), ordered, i + 1,
                    AnchorAfterMove(prev, ordered[i], TRUE))

ImposeOrder(ms, ordered) == ImposeFrom(ms, ordered, 1, None)

\* ------------------------------------------ apply_collection_state_to_plex
\* What a lookup-by-key (section.fetchItem) ends with.
FetchOutcomes == {"found", "not_found", "error"}

\* A lookup that lets every error but NotFound escape.
FetchCatchesNotFoundOnly(outcome) ==
    CASE outcome = "found" -> "item"
      [] outcome = "not_found" -> "None"
      [] OTHER -> "raise"

\* _fetch_by_rating_key: the item, or None whatever fetchItem (or int()) raised.
fetch_by_rating_key(outcome) == IF outcome = "found" THEN "item" ELSE "None"

\* The kind the resolved items are filtered to.
AllowedType == "movie"

\* The items a missing collection is created with.
CreateSeed(desired) == desired

\* The keywords apply_collection_state_to_plex takes besides its four
\* positional parameters.
ApplyKeywords == {"logger", "base_dir"}

\* The keywords a caller passes: the movie refresher passes logger and
\* base_dir, the TV refresher also allowed_types and hub_pin_order.
CallerKeywords ==
    IF allowed_types = "absent" THEN {"logger", "base_dir"}
    ELSE {"logger", "base_dir", "allowed_types", "hub_pin_order"}

\* A call binds its keywords to the parameters of the function.
BindsKeywords(passed, taken) == passed \subseteq taken

\* The call itself: a keyword the function does not take raises TypeError
\* before the body runs.
ApplyCall ==
    /\ mode = "apply" /\ pc = "a_call"
    /\ IF BindsKeywords(CallerKeywords, ApplyKeywords)
       THEN pc' = StepAfter(pc) /\ UNCHANGED <<result, raised_at>>
       ELSE Raise(pc)
    /\ last_call' = "none"
    /\ UNCHANGED <<mode, scoreVars, last_op, serverVars, resolveVars, collection,
                   coll_found, existing_items, attempt, remove_status, add_status,
                   refreshVars, orderVars, calls, moves>>
    /\ UNCHANGED <<retryVars, fileVars, mainVars>>

\* "Verifying Plex connection" and plex.library.section(): an error propagates.
ApplyConnect ==
    /\ mode = "apply" /\ pc = "a_connect"
    /\ \E ok \in BOOLEAN :
        IF ok THEN pc' = StepAfter(pc) /\ UNCHANGED <<result, raised_at>>
        ELSE Raise(pc)
    /\ last_call' = "none"
    /\ UNCHANGED <<mode, scoreVars, last_op, serverVars, resolveVars, collection,
                   coll_found, existing_items, attempt, remove_status, add_status,
                   refreshVars, orderVars, calls, moves>>
    /\ UNCHANGED <<retryVars, fileVars, mainVars>>

\* section.collection(name) and collection.items(); NotFound means "create it
\* later", any other error propagates.
ApplyGetCollection ==
    /\ mode = "apply" /\ pc = "a_collection"
    /\ \E ok \in BOOLEAN :
        IF ~ok THEN Raise(pc) /\ UNCHANGED <<collection, coll_found, existing_items>>
        ELSE /\ pc' = StepAfter(pc)
             /\ collection' = IF coll_exists THEN "handle" ELSE "None"
             /\ coll_found' = coll_exists
             /\ existing_items' = IF coll_exists THEN members ELSE <<>>
             /\ UNCHANGED <<result, raised_at>>
    /\ last_call' = "none"
    /\ UNCHANGED <<mode, scoreVars, last_op, serverVars, resolveVars, attempt,
                   remove_status, add_status, refreshVars, orderVars, calls, moves>>
    /\ UNCHANGED <<retryVars, fileVars, mainVars>>

\* One iteration of the loop over rating_keys (or its exit).
ApplyResolve ==
    /\ mode = "apply" /\ pc = "a_resolve"
    /\ IF k_idx = Len(rating_keys)
       THEN /\ pc' = StepAfter(pc)
            /\ UNCHANGED <<k_idx, fetched, desired_items, failed_keys,
                           filtered_non_movies, result, raised_at>>
       ELSE LET rating_key == rating_keys[k_idx + 1]
            IN \E out \in FetchOutcomes :
                LET item == fetch_by_rating_key(out)
                IN IF item = "raise"
                   THEN /\ Raise(pc)
                        /\ UNCHANGED <<k_idx, fetched, desired_items, failed_keys,
                                       filtered_non_movies>>
                   ELSE /\ pc' = pc
                        /\ k_idx' = k_idx + 1
                        /\ fetched' = Append(fetched, out)
                        /\ UNCHANGED <<result, raised_at>>
                        /\ IF item # "None"
                           THEN IF Kind(rating_key) = AllowedType
                                THEN /\ desired_items' = Append(desired_items, rating_key)
                                     /\ UNCHANGED <<failed_keys, filtered_non_movies>>
                                ELSE /\ filtered_non_movies' =
                                            Append(filtered_non_movies, rating_key)
                                     /\ UNCHANGED <<failed_keys, desired_items>>
                           ELSE /\ failed_keys' = Append(failed_keys, rating_key)
                                /\ UNCHANGED <<desired_items, filtered_non_movies>>
    /\ last_call' = "none"
    /\ UNCHANGED <<mode, scoreVars, last_op, serverVars, rating_keys, allowed_types,
                   collection, coll_found, existing_items, attempt, remove_status,
                   add_status, refreshVars, orderVars, calls, moves>>
    /\ UNCHANGED <<retryVars, fileVars, mainVars>>

\* "Remove all existing items": collection.removeItems(existing_items) under
\* retry_with_backoff; one attempt per step.
ApplyRemove ==
    /\ mode = "apply" /\ pc = "a_remove"
    /\ IF existing_items = <<>>
       THEN /\ pc' = StepAfter(pc)
            /\ last_call' = "none"
            /\ UNCHANGED <<members, attempt, remove_status, result, raised_at, calls>>
       ELSE \E out \in Outcomes :
            LET r == RetryStep(attempt, out, DEFAULT_MAX_RETRIES, RemoveRaisesOnFinalFailure)
            IN /\ calls' = calls \cup {Call("remove", existing_items)}
               /\ last_call' = "remove"
               /\ members' = IF out = "ok" THEN RemoveFrom(members, existing_items)
                             ELSE members
               /\ attempt' = IF r = "again" THEN attempt + 1 ELSE 0
               /\ remove_status' = CASE r = "success" -> "ok"
                                     [] r = "again" -> remove_status
                                     [] OTHER -> "failed"
               /\ IF r = "raise" THEN Raise(pc)
                  ELSE /\ pc' = IF r = "again" THEN pc ELSE StepAfter(pc)
                       /\ UNCHANGED <<result, raised_at>>
    /\ UNCHANGED <<mode, scoreVars, last_op, coll_exists, sort_mode, resolveVars,
                   collection, coll_found, existing_items, add_status, refreshVars,
                   orderVars, moves>>
    /\ UNCHANGED <<retryVars, fileVars, mainVars>>

\* "Add all desired items": create the collection with them when it does not
\* exist (a failed creation raises RuntimeError), else collection.addItems.
ApplyAdd ==
    /\ mode = "apply" /\ pc = "a_add"
    /\ IF desired_items = <<>>
       THEN /\ pc' = StepAfter(pc)
            /\ last_call' = "none"
            /\ UNCHANGED <<coll_exists, members, collection, attempt, add_status,
                           result, raised_at, calls>>
       ELSE \E out \in Outcomes :
            LET r == RetryStep(attempt, out, DEFAULT_MAX_RETRIES, AddRaisesOnFinalFailure)
            IN /\ attempt' = IF r = "again" THEN attempt + 1 ELSE 0
               /\ add_status' = CASE r = "success" -> "ok"
                                  [] r = "again" -> add_status
                                  [] OTHER -> "failed"
               /\ IF collection = "None"
                  THEN /\ calls' = calls \cup {Call("create", CreateSeed(desired_items))}
                       /\ last_call' = "create"
                       /\ coll_exists' = (out = "ok")
                       /\ members' = IF out = "ok" THEN AddTo(<<>>, CreateSeed(desired_items))
                                     ELSE members
                       /\ collection' = IF r = "success" THEN "handle" ELSE collection
                       /\ IF r \in {"failure", "raise"} THEN Raise(pc)
                          ELSE /\ pc' = IF r = "again" THEN pc ELSE "a_create_art"
                               /\ UNCHANGED <<result, raised_at>>
                  ELSE /\ calls' = calls \cup {Call("add", desired_items)}
                       /\ last_call' = "add"
                       /\ members' = IF out = "ok" THEN AddTo(members, desired_items)
                                     ELSE members
                       /\ IF r = "raise" THEN Raise(pc)
                          ELSE /\ pc' = IF r = "again" THEN pc ELSE StepAfter(pc)
                               /\ UNCHANGED <<result, raised_at>>
                       /\ UNCHANGED <<coll_exists, collection>>
    /\ UNCHANGED <<mode, scoreVars, last_op, sort_mode, resolveVars, coll_found,
                   existing_items, remove_status, refreshVars, orderVars, moves>>
    /\ UNCHANGED <<retryVars, fileVars, mainVars>>

\* _set_collection_artwork: uploads the collection's poster and background
\* (the artwork files of the collection are taken to exist); never raises.
SetArtwork ==
    IF collection # "None"
    THEN calls' = calls \cup {Call("art", <<>>)} /\ last_call' = "art"
    ELSE calls' = calls /\ last_call' = "none"

ApplyCreateArt ==
    /\ mode = "apply" /\ pc = "a_create_art"
    /\ SetArtwork
    /\ pc' = StepAfter(pc)
    /\ UNCHANGED <<mode, scoreVars, last_op, serverVars, resolveVars, runVars,
                   refreshVars, orderVars, moves>>
    /\ UNCHANGED <<retryVars, fileVars, mainVars>>

\* "Apply custom order" over the desired, resolved items.
ApplyOrder ==
    /\ mode = "apply" /\ pc = "a_order"
    /\ IF desired_items # <<>>
       THEN ordered_items' = desired_items /\ pc' = "o_sort"
       ELSE ordered_items' = ordered_items /\ pc' = StepAfter(pc)
    /\ last_call' = "none"
    /\ UNCHANGED <<mode, scoreVars, last_op, serverVars, resolveVars, runVars,
                   refreshVars, o_idx, prev_id, current_collection_items,
                   failed_moves, successful_moves, calls, moves>>
    /\ UNCHANGED <<retryVars, fileVars, mainVars>>

\* Final artwork, then return {existing_items, desired_items, failed_keys}.
ApplyArt ==
    /\ mode = "apply" /\ pc = "a_art"
    /\ SetArtwork
    /\ pc' = StepAfter(pc)
    /\ result' = "returned"
    /\ UNCHANGED <<mode, scoreVars, last_op, serverVars, resolveVars, collection,
                   coll_found, existing_items, attempt, remove_status, add_status,
                   raised_at, refreshVars, orderVars, moves>>
    /\ UNCHANGED <<retryVars, fileVars, mainVars>>

ApplyReturn ==
    [existing_items |-> Len(existing_items),
     desired_items |-> Len(desired_items),
     failed_keys |-> Len(failed_keys)]

\* ------------------------------------------ refresh_collection_with_points
\* _get_points / _set_points on the movie store {ratingKey: points}.
movie_get_points(pd, k) == IF k \in DOMAIN pd THEN pd[k] ELSE 0

\* "ensure points exist": every item of by_key without points starts at 0.
EnsurePoints(pd, keys) ==
    [k \in (DOMAIN pd) \cup keys |-> movie_get_points(pd, k)]

\* "boost this run": +1 for every element of suggested_now_keys.
RECURSIVE BoostRun(_, _)
BoostRun(pd, suggested_now_keys) ==
    IF suggested_now_keys = <<>> THEN pd
    ELSE BoostRun(Put(pd, Head(suggested_now_keys),
                      movie_get_points(pd, Head(suggested_now_keys)) + 1),
                  Tail(suggested_now_keys))

\* sort_key: (points, title.lower()); the list is sorted with reverse=True.
SortsBefore(pd, a, b) ==
    \/ movie_get_points(pd, a) > movie_get_points(pd, b)
    \/ movie_get_points(pd, a) = movie_get_points(pd, b) /\ Title(a) > Title(b)

RECURSIVE SortItems(_, _)
SortItems(keys, pd) ==
    IF keys = {} THEN <<>>
    ELSE LET first == CHOOSE a \in keys : \A b \in keys \ {a} : SortsBefore(pd, a, b)
         IN <<first>> \o SortItems(keys \ {first}, pd)

\* build_final_items_with_points: the updated store and final_items.
build_final_items_with_points(existing, this_run, pd) ==
    LET by_key == Range(existing) \cup Range(this_run)
        pd2 == BoostRun(EnsurePoints(pd, by_key), this_run)
    IN [points_data |-> pd2, final_items |-> SortItems(by_key, pd2)]

\* An add list that is not diffed against the current members.
DiffAddAll(cur, final) == final

\* to_remove / to_add of the diff update.
DiffRemove(cur, final) == SelectSeq(cur, LAMBDA x : x \notin Range(final))

DiffAdd(cur, final) == SelectSeq(final, LAMBDA x : x \notin Range(cur))

Shuffles(s) ==
    {p \in [1..Len(s) -> Range(s)] : \A i, j \in 1..Len(s) : i # j => p[i] # p[j]}

\* section lookup, collection lookup (NotFound: no existing items), then the
\* scoring by build_final_items_with_points.
RefreshGetCollection ==
    /\ mode = "refresh" /\ pc = "r_collection"
    /\ \E ok \in BOOLEAN :
        IF ~ok THEN /\ Raise(pc)
                    /\ UNCHANGED <<collection, coll_found, existing_items, movie_points,
                                   final_items, last_op>>
        ELSE LET existing == IF coll_exists THEN members ELSE <<>>
                 built == build_final_items_with_points(existing, plex_movies_this_run,
                                                         movie_points)
             IN /\ pc' = StepAfter(pc)
                /\ collection' = IF coll_exists THEN "handle" ELSE "None"
                /\ coll_found' = coll_exists
                /\ existing_items' = existing
                /\ movie_points' = built.points_data
                /\ final_items' = built.final_items
                /\ last_op' = "legacy_pass"
                /\ UNCHANGED <<result, raised_at>>
    /\ last_call' = "none"
    /\ UNCHANGED <<mode, scoreVars, serverVars, resolveVars, attempt, remove_status,
                   add_status, plex_movies_this_run, randomize, current, to_remove,
                   to_add, orderVars, calls, moves>>
    /\ UNCHANGED <<retryVars, fileVars, mainVars>>

\* The server is shared: between the fetch of existing_items and the fetch of
\* current another client may add a movie to the collection.
OtherClientAdds ==
    /\ mode = "refresh" /\ pc = "r_current"
    /\ coll_exists
    /\ \E k \in MovieKeys \ Range(members) :
        /\ k = Max(MovieKeys)
        /\ members' = Append(members, k)
    /\ last_call' = "none"
    /\ UNCHANGED <<mode, pc, scoreVars, last_op, coll_exists, sort_mode, resolveVars,
                   runVars, refreshVars, orderVars, calls, moves>>
    /\ UNCHANGED <<retryVars, fileVars, mainVars>>

\* current = collection.items() if collection else []; then the diff.
RefreshCurrent ==
    /\ mode = "refresh" /\ pc = "r_current"
    /\ \E ok \in BOOLEAN :
        IF ~ok /\ collection # "None"
        THEN Raise(pc) /\ UNCHANGED <<current, to_remove, to_add>>
        ELSE LET cur == IF collection # "None" THEN members ELSE <<>>
             IN /\ pc' = StepAfter(pc)
                /\ current' = cur
                /\ to_remove' = DiffRemove(cur, final_items)
                /\ to_add' = DiffAdd(cur, final_items)
                /\ UNCHANGED <<result, raised_at>>
    /\ last_call' = "none"
    /\ UNCHANGED <<mode, scoreVars, last_op, serverVars, resolveVars, collection,
                   coll_found, existing_items, attempt, remove_status, add_status,
                   movie_points, plex_movies_this_run, randomize, final_items,
                   orderVars, calls, moves>>
    /\ UNCHANGED <<retryVars, fileVars, mainVars>>

\* "remove only what's needed".
RefreshRemove ==
    /\ mode = "refresh" /\ pc = "r_remove"
    /\ IF to_remove = <<>>
       THEN /\ pc' = StepAfter(pc)
            /\ last_call' = "none"
            /\ UNCHANGED <<members, attempt, remove_status, result, raised_at, calls>>
       ELSE \E out \in Outcomes :
            LET r == RetryStep(attempt, out, DEFAULT_MAX_RETRIES, RemoveRaisesOnFinalFailure)
            IN /\ calls' = calls \cup {Call("remove", to_remove)}
               /\ last_call' = "remove"
               /\ members' = IF out = "ok" THEN RemoveFrom(members, to_remove) ELSE members
               /\ attempt' = IF r = "again" THEN attempt + 1 ELSE 0
               /\ remove_status' = CASE r = "success" -> "ok"
                                     [] r = "again" -> remove_status
                                     [] OTHER -> "failed"
               /\ IF r = "raise" THEN Raise(pc)
                  ELSE /\ pc' = IF r = "again" THEN pc ELSE StepAfter(pc)
                       /\ UNCHANGED <<result, raised_at>>
    /\ UNCHANGED <<mode, scoreVars, last_op, coll_exists, sort_mode, resolveVars,
                   collection, coll_found, existing_items, add_status, refreshVars,
                   orderVars, moves>>
    /\ UNCHANGED <<retryVars, fileVars, mainVars>>

\* "add only what's needed". With no collection (None) every attempt raises
\* AttributeError before any call is sent; the error counts as retryable.
RefreshAdd ==
    /\ mode = "refresh" /\ pc = "r_add"
    /\ IF to_add = <<>>
       THEN /\ pc' = StepAfter(pc)
            /\ last_call' = "none"
            /\ UNCHANGED <<members, attempt, add_status, result, raised_at, calls>>
       ELSE \E out \in (IF collection = "None" THEN {"retryable"} ELSE Outcomes) :
            LET r == RetryStep(attempt, out, DEFAULT_MAX_RETRIES, AddRaisesOnFinalFailure)
            IN /\ calls' = IF collection = "None" THEN calls
                           ELSE calls \cup {Call("add", to_add)}
               /\ last_call' = IF collection = "None" THEN "none" ELSE "add"
               /\ members' = IF out = "ok" THEN AddTo(members, to_add) ELSE members
               /\ attempt' = IF r = "again" THEN attempt + 1 ELSE 0
               /\ add_status' = CASE r = "success" -> "ok"
                                  [] r = "again" -> add_status
                                  [] OTHER -> "failed"
               /\ IF r = "raise" THEN Raise(pc)
                  ELSE /\ pc' = IF r = "again" THEN pc ELSE StepAfter(pc)
                       /\ UNCHANGED <<result, raised_at>>
    /\ UNCHANGED <<mode, scoreVars, last_op, coll_exists, sort_mode, resolveVars,
                   collection, coll_found, existing_items, remove_status, refreshVars,
                   orderVars, moves>>
    /\ UNCHANGED <<retryVars, fileVars, mainVars>>

RefreshArt ==
    /\ mode = "refresh" /\ pc = "r_art"
    /\ SetArtwork
    /\ pc' = StepAfter(pc)
    /\ UNCHANGED <<mode, scoreVars, last_op, serverVars, resolveVars, runVars,
                   refreshVars, orderVars, moves>>
    /\ UNCHANGED <<retryVars, fileVars, mainVars>>

\* "optional: custom random order": random.shuffle(final_items), then
\* _apply_custom_order; without randomize the function returns.
RefreshOrder ==
    /\ mode = "refresh" /\ pc = "r_order"
    /\ IF randomize
       THEN \E p \in Shuffles(final_items) :
            /\ final_items' = p
            /\ ordered_items' = p
            /\ pc' = "o_sort"
            /\ UNCHANGED result
       ELSE /\ pc' = StepAfter(pc)
            /\ result' = "returned"
            /\ UNCHANGED <<final_items, ordered_items>>
    /\ last_call' = "none"
    /\ UNCHANGED <<mode, scoreVars, last_op, serverVars, resolveVars, collection,
                   coll_found, existing_items, attempt, remove_status, add_status,
                   raised_at, movie_points, plex_movies_this_run, randomize, current,
                   to_remove, to_add, o_idx, prev_id, current_collection_items,
                   failed_moves, successful_moves, calls, moves>>
    /\ UNCHANGED <<retryVars, fileVars, mainVars>>

\* The return of refresh_collection_with_points after the reordering.
RefreshReturn ==
    /\ mode = "refresh" /\ pc = "done" /\ result = "running"
    /\ result' = "returned"
    /\ last_call' = "none"
    /\ UNCHANGED <<mode, pc, scoreVars, last_op, serverVars, resolveVars, collection,
                   coll_found, existing_items, attempt, remove_status, add_status,
                   raised_at, refreshVars, orderVars, calls, moves>>
    /\ UNCHANGED <<retryVars, fileVars, mainVars>>

vars == <<mode, pc, scoreVars, last_op, syncVars, retryVars, fileVars, mainVars>>

\* ------------------------------------------------------------------ Init
\* Per show at most one entry (a stale second key only arises by a pass).
StartStores ==
    {pd \in UNION {[S -> [points : StartPoints, tvdb_id : Items \cup {None}]] :
                     S \in SUBSET ScoreKeys} :
        /\ \A k \in DOMAIN pd :
              pd[k].tvdb_id = (IF k[1] = "tvdb" THEN ItemOf(k) ELSE None)
        /\ \A i \in Items : ~(TitleKey(i) \in DOMAIN pd /\ TvdbKey(i) \in DOMAIN pd)}

NoStats == [suggested_now |-> 0, decayed |-> 0, removed |-> 0, total |-> 0]

\* The collection's members before a run.
StartMembers == {<<>>, <<1>>, <<2>>, <<1, 2>>}

\* A movie points file before a run.
StartMoviePoints ==
    {[k \in S |-> p] : S \in {{}, {1}, {1, 2}}, p \in {1, MAX_POINTS}}

ScoreIdle ==
    /\ passes = 0
    /\ recs = <<>>
    /\ tvdb_known = {}
    /\ stats = NoStats
    /\ last_op = "init"

NoCollection ==
    /\ coll_exists = FALSE
    /\ members = <<>>
    /\ sort_mode = "default"

RunIdle ==
    /\ collection = "None"
    /\ coll_found = FALSE
    /\ existing_items = <<>>
    /\ k_idx = 0
    /\ fetched = <<>>
    /\ desired_items = <<>>
    /\ failed_keys = <<>>
    /\ filtered_non_movies = <<>>
    /\ attempt = 0
    /\ remove_status = "none"
    /\ add_status = "none"
    /\ result = "running"
    /\ raised_at = "none"
    /\ final_items = <<>>
    /\ current = <<>>
    /\ to_remove = <<>>
    /\ to_add = <<>>
    /\ ordered_items = <<>>
    /\ o_idx = 0
    /\ prev_id = None
    /\ current_collection_items = {}
    /\ failed_moves = <<>>
    /\ successful_moves = 0
    /\ calls = {}
    /\ last_call = "none"
    /\ moves = <<>>

NoExc == [type |-> "none", status |-> "none", markers |-> {}]

NoReturn == <<"none">>

NoFile == [exists |-> FALSE, readable |-> TRUE, text |-> <<>>]

FileIdle ==
    /\ file = NoFile
    /\ pre = EmptyMap
    /\ store = EmptyMap
    /\ loaded = EmptyMap
    /\ load_raised = FALSE
    /\ ordered_keys = <<>>

MainIdle ==
    /\ entry_point = "none"
    /\ dry_run = FALSE
    /\ exit_code = NoExit
    /\ connects = 0
    /\ exc = "none"
    /\ missing_keys = 0
    /\ media_type = "none"
    /\ interrupted = FALSE

RetryIdle ==
    /\ max_retries = 0
    /\ raise_on_final_failure = FALSE
    /\ default_return = "None"
    /\ history = <<>>
    /\ sleeps = <<>>
    /\ last_exception = NoExc
    /\ ret = NoReturn
    /\ propagated = NoExc

InitScore ==
    /\ RetryIdle
    /\ FileIdle
    /\ MainIdle
    /\ mode = "score"
    /\ pc = "idle"
    /\ points_data \in StartStores
    /\ ScoreIdle
    /\ NoCollection
    /\ RunIdle
    /\ rating_keys = <<>>
    /\ allowed_types = "absent"
    /\ movie_points = EmptyMap
    /\ plex_movies_this_run = <<>>
    /\ randomize = FALSE

InitServer ==
    /\ coll_exists \in BOOLEAN
    /\ members \in (IF coll_exists THEN StartMembers ELSE {<<>>})
    /\ sort_mode = "default"

InitApply ==
    /\ RetryIdle
    /\ FileIdle
    /\ MainIdle
    /\ mode = "apply"
    /\ pc = "a_call"
    /\ points_data = EmptyMap
    /\ ScoreIdle
    /\ InitServer
    /\ RunIdle
    /\ \/ /\ allowed_types = "absent"
          /\ rating_keys \in {s \in SeqsUpTo(RatingKeys, MaxSnap) : NoRepeat(s)}
       \/ /\ allowed_types = "show"
          /\ rating_keys \in {s \in SeqsUpTo(ShowKeys, MaxSnap) : NoRepeat(s) /\ s # <<>>}
    /\ movie_points = EmptyMap
    /\ plex_movies_this_run = <<>>
    /\ randomize = FALSE

InitRefresh ==
    /\ RetryIdle
    /\ FileIdle
    /\ MainIdle
    /\ mode = "refresh"
    /\ pc = "r_collection"
    /\ points_data = EmptyMap
    /\ ScoreIdle
    /\ InitServer
    /\ RunIdle
    /\ rating_keys = <<>>
    /\ allowed_types = "absent"
    /\ movie_points \in StartMoviePoints
    /\ plex_movies_this_run \in SeqsUpTo(MovieKeys, MaxRecs)
    /\ randomize \in BOOLEAN

Init == InitScore \/ InitApply \/ InitRefresh

Next ==
    \/ RunTvPipeline
    \/ TvRefresherEnrich
    \/ ApplyCall
    \/ ApplyConnect
    \/ ApplyGetCollection
    \/ ApplyResolve
    \/ ApplyRemove
    \/ ApplyAdd
    \/ ApplyCreateArt
    \/ ApplyOrder
    \/ ApplyArt
    \/ RefreshGetCollection
    \/ OtherClientAdds
    \/ RefreshCurrent
    \/ RefreshRemove
    \/ RefreshAdd
    \/ RefreshArt
    \/ RefreshOrder
    \/ RefreshReturn
    \/ OrderSort
    \/ OrderItems
    \/ OrderLoop

Spec == Init /\ [][Next]_vars

\* ====================================================== retry_utils, alone
\* An exception the operation raises: its class, the status of the response
\* an HTTPError carries, and the markers its lower-cased message contains.
\* "Timeout" stands for Timeout, ReadTimeoutError, ConnectTimeoutError and
\* requests' ConnectionError; "ConnectionError" for the builtin one;
\* "RequestException" for any other RequestException; "BadRequest" includes
\* its subclass Unauthorized; "Exception" is any other Exception.
ExcTypes == {"HTTPError", "Timeout", "ConnectionError", "RequestException",
             "BadRequest", "NotFound", "Exception"}

\* response.status_code: absent, in [400,500), in [500,600), or another value.
Statuses == {"none", "4xx", "5xx", "other"}

\* "client": '400', 'bad request'; "auth": '401', '403', 'unauthorized',
\* 'forbidden'; "authentication": 'authentication'; "notfound": '404',
\* 'not found'; "transient": 'timeout', 'connection', 'network',
\* 'unreachable'; "overloaded": 'overloaded'.
Markers == {"client", "auth", "authentication", "notfound", "transient", "overloaded"}

Exceptions ==
    {e \in [type : ExcTypes, status : Statuses,
            markers : {M \in SUBSET Markers : Cardinality(M) <= MaxMarkers}] :
        e.type # "HTTPError" => e.status = "none"}

\* The keyword list of lines 41 and 56.
ClientErrorMarkers == {"client", "auth", "notfound"}

\* A classification that looks at the message only, never at the status.
ClassifiesByMessageOnly(e) ==
    IF e.type = "HTTPError" /\ e.markers \cap ClientErrorMarkers # {} THEN FALSE
    ELSE IF e.type \in {"Timeout", "ConnectionError"} THEN TRUE
    ELSE IF e.type = "RequestException" /\ e.markers \cap ClientErrorMarkers # {} THEN FALSE
    ELSE IF e.markers \cap {"transient", "overloaded"} # {} THEN TRUE
    ELSE IF e.type \in {"BadRequest", "NotFound"} THEN FALSE
    ELSE IF e.markers \cap {"auth", "authentication", "notfound"} # {} THEN FALSE
    ELSE TRUE

\* A classification without the permanent cases of lines 70-80.
ClassifiesWithoutPermanent(e) ==
    IF e.type = "HTTPError" /\ e.status = "4xx" THEN FALSE
    ELSE IF e.type = "HTTPError" /\ e.status = "5xx" THEN TRUE
    ELSE IF e.type = "HTTPError" /\ e.markers \cap ClientErrorMarkers # {} THEN FALSE
    ELSE IF e.type \in {"Timeout", "ConnectionError"} THEN TRUE
    ELSE IF e.type = "RequestException" /\ e.markers \cap ClientErrorMarkers # {} THEN FALSE
    ELSE TRUE

\* is_retryable_error, test by test in the order of the code.
is_retryable_error(e) ==
    IF e.type = "HTTPError" /\ e.status = "4xx" THEN FALSE
    ELSE IF e.type = "HTTPError" /\ e.status = "5xx" THEN TRUE
    ELSE IF e.type = "HTTPError" /\ e.markers \cap ClientErrorMarkers # {} THEN FALSE
    ELSE IF e.type = "Timeout" THEN TRUE
    ELSE IF e.type = "ConnectionError" THEN TRUE
    ELSE IF e.type = "RequestException" /\ e.markers \cap ClientErrorMarkers # {} THEN FALSE
    ELSE IF e.type = "RequestException" /\ "transient" \in e.markers THEN TRUE
    ELSE IF e.markers \cap {"transient", "overloaded"} # {} THEN TRUE
    ELSE IF e.type \in {"BadRequest", "NotFound"} THEN FALSE
    ELSE IF e.markers \cap {"auth", "authentication"} # {} THEN FALSE
    ELSE IF "notfound" \in e.markers THEN FALSE
    ELSE TRUE

\* What the operation may return.
Values == {"None", "v"}

\* What one invocation of the operation does.
FuncOutcomes ==
    {[kind |-> "return", value |-> v, exc |-> NoExc] : v \in Values}
        \cup {[kind |-> "raise", value |-> "None", exc |-> e] : e \in Exceptions}

RECURSIVE Pow(_, _)
Pow(b, n) == IF n = 0 THEN 1 ELSE b * Pow(b, n - 1)

\* A delay whose exponent counts the attempts made, not the attempt index.
DelayByAttemptsMade(att) ==
    DEFAULT_RETRY_DELAY * Pow(DEFAULT_BACKOFF_MULTIPLIER, att + 1)

\* delay = retry_delay * (backoff_multiplier ** attempt)
Delay(att) == DEFAULT_RETRY_DELAY * Pow(DEFAULT_BACKOFF_MULTIPLIER, att)

\* A success reported with the failure flag.
SuccessReportsFailure(value) == <<value, FALSE>>

\* return (result, True)
SuccessReturn(value) == <<value, TRUE>>

\* return (None, False)
FailureReturn == <<"None", FALSE>>

\* One iteration of retry_with_backoff's loop: the invocation, the
\* classification of what it raised, the sleep, the return or the raise.
RetryAttempt ==
    /\ mode = "retry" /\ pc = "calling"
    /\ \E out \in FuncOutcomes :
        LET class == IF out.kind = "return" THEN "ok"
                     ELSE IF is_retryable_error(out.exc) THEN "retryable"
                     ELSE "permanent"
            r == RetryStep(attempt, class, max_retries, raise_on_final_failure)
        IN /\ history' = Append(history, [kind |-> out.kind, value |-> out.value,
                                          class |-> class])
           /\ last_exception' = IF out.kind = "raise" THEN out.exc ELSE last_exception
           /\ sleeps' = IF r = "again" THEN Append(sleeps, Delay(attempt)) ELSE sleeps
           /\ attempt' = IF r = "again" THEN attempt + 1 ELSE attempt
           /\ pc' = IF r = "again" THEN pc ELSE "done"
           /\ ret' = CASE r = "success" -> SuccessReturn(out.value)
                       [] r = "failure" -> FailureReturn
                       [] OTHER -> ret
           /\ propagated' = IF r = "raise" THEN out.exc ELSE propagated
    /\ UNCHANGED <<mode, scoreVars, last_op, serverVars, resolveVars, collection,
                   coll_found, existing_items, remove_status, add_status, result,
                   raised_at, refreshVars, orderVars, logVars, max_retries,
                   raise_on_final_failure, default_return>>
    /\ UNCHANGED <<fileVars, mainVars>>

\* A best-effort execute that lets the exception through.
SafeReraises(out, default) ==
    IF out.kind = "return" THEN [ret |-> <<out.value>>, propagated |-> NoExc]
    ELSE [ret |-> NoReturn, propagated |-> out.exc]

\* safe_execute's try/except: the value, or default_return on any Exception.
SafeResult(out, default) ==
    IF out.kind = "return" THEN [ret |-> <<out.value>>, propagated |-> NoExc]
    ELSE [ret |-> <<default>>, propagated |-> NoExc]

SafeExecute ==
    /\ mode = "safe" /\ pc = "calling"
    /\ \E out \in FuncOutcomes :
        /\ history' = Append(history, [kind |-> out.kind, value |-> out.value,
                                       class |-> "unclassified"])
        /\ last_exception' = IF out.kind = "raise" THEN out.exc ELSE last_exception
        /\ ret' = SafeResult(out, default_return).ret
        /\ propagated' = SafeResult(out, default_return).propagated
    /\ pc' = "done"
    /\ UNCHANGED <<mode, scoreVars, last_op, syncVars, max_retries,
                   raise_on_final_failure, default_return, sleeps>>
    /\ UNCHANGED <<fileVars, mainVars>>

\* Nothing but the call under study runs.
SyncIdle ==
    /\ points_data = EmptyMap
    /\ ScoreIdle
    /\ NoCollection
    /\ RunIdle
    /\ rating_keys = <<>>
    /\ allowed_types = "absent"
    /\ movie_points = EmptyMap
    /\ plex_movies_this_run = <<>>
    /\ randomize = FALSE

RetryInit ==
    /\ SyncIdle
    /\ FileIdle
    /\ MainIdle
    /\ pc = "calling"
    /\ history = <<>>
    /\ sleeps = <<>>
    /\ last_exception = NoExc
    /\ ret = NoReturn
    /\ propagated = NoExc
    /\ \/ /\ mode = "retry"
          /\ max_retries \in 0..MaxRetries
          /\ raise_on_final_failure \in BOOLEAN
          /\ default_return = "None"
       \/ /\ mode = "safe"
          /\ max_retries = 0
          /\ raise_on_final_failure = FALSE
          /\ default_return \in {"None", "d"}

RetryNext == RetryAttempt \/ SafeExecute

RetrySpec == RetryInit /\ [][RetryNext]_vars

\* ------------------------------------------------- the points file, alone
\* Stores small enough to enumerate: rating key -> points.
FileKeys == 1..MaxFileKeys

FileStores == UNION {[S -> {1, MAX_POINTS}] : S \in SUBSET FileKeys}

\* A text is a sequence of chunks <<tag, key, value>>.
Chunk(tag) == <<tag, 0, 0>>

RECURSIVE EntriesOf(_, _)
EntriesOf(st, keys) ==
    IF keys = {} THEN <<>>
    ELSE LET k == CHOOSE x \in keys : \A y \in keys : x <= y
         IN <<<<"entry", k, st[k]>>>> \o EntriesOf(st, keys \ {k})

\* json.dump(points_data, f): the chunks it writes, in order.
Dump(st) == <<Chunk("{")>> \o EntriesOf(st, DOMAIN st) \o <<Chunk("}")>>

\* JSON documents that are not an object.
NonObjectTexts == {<<Chunk("["), Chunk("]")>>, <<Chunk("number")>>}

\* Texts that are not JSON: the empty file, a cut-off object.
GarbageTexts == {<<>>, <<Chunk("{"), Chunk("oops")>>}

IsObjectText(text) ==
    /\ Len(text) >= 2
    /\ text[1] = Chunk("{")
    /\ text[Len(text)] = Chunk("}")
    /\ \A i \in 2..(Len(text) - 1) : text[i][1] = "entry"

\* json.load(f): the object, another value, or JSONDecodeError.
json_load(text) ==
    IF IsObjectText(text)
    THEN [kind |-> "object",
          value |-> [k \in {text[i][2] : i \in 2..(Len(text) - 1)} |->
                        LET i == CHOOSE j \in 2..(Len(text) - 1) : text[j][2] = k
                        IN text[i][3]]]
    ELSE IF text \in NonObjectTexts THEN [kind |-> "other", value |-> EmptyMap]
    ELSE [kind |-> "error", value |-> EmptyMap]

\* A load whose except clause covers FileNotFoundError only.
LoadCatchesNotFoundOnly(f) ==
    IF ~f.exists THEN [store |-> EmptyMap, raised |-> FALSE]
    ELSE IF ~f.readable \/ json_load(f.text).kind = "error"
    THEN [store |-> EmptyMap, raised |-> TRUE]
    ELSE [store |-> IF json_load(f.text).kind = "object" THEN json_load(f.text).value
                    ELSE EmptyMap,
          raised |-> FALSE]

\* load_points / _load_points: FileNotFoundError -> {}, any other Exception
\* -> {}, a document that is not a dict -> {}.
load_points(f) ==
    IF ~f.exists THEN [store |-> EmptyMap, raised |-> FALSE]
    ELSE IF ~f.readable \/ json_load(f.text).kind = "error"
    THEN [store |-> EmptyMap, raised |-> FALSE]
    ELSE [store |-> IF json_load(f.text).kind = "object" THEN json_load(f.text).value
                    ELSE EmptyMap,
          raised |-> FALSE]

FileOf(text) == [exists |-> TRUE, readable |-> TRUE, text |-> text]

LoadPoints ==
    /\ mode = "load" /\ pc = "loading"
    /\ loaded' = load_points(file).store
    /\ load_raised' = load_points(file).raised
    /\ pc' = "done"
    /\ UNCHANGED <<mode, scoreVars, last_op, syncVars, retryVars, file, pre, store,
                   ordered_keys, mainVars>>

\* save_points / _save_points, step by step: open(path, "w") truncates the
\* file; an error is logged and the function returns.
SaveOpen ==
    /\ mode = "save" /\ pc = "s_open"
    /\ \E ok \in BOOLEAN :
        IF ok THEN file' = FileOf(<<>>) /\ pc' = "s_write"
        ELSE file' = file /\ pc' = "s_done"
    /\ UNCHANGED <<mode, scoreVars, last_op, syncVars, retryVars, pre, store, loaded,
                   load_raised, ordered_keys, mainVars>>

\* json.dump writes the next chunk, or an OSError ends the function.
SaveWrite ==
    /\ mode = "save" /\ pc = "s_write"
    /\ LET text == Dump(store)
           n == Len(file.text)
       IN IF n = Len(text) THEN file' = file /\ pc' = "s_close"
          ELSE \E ok \in BOOLEAN :
               IF ok THEN file' = FileOf(Append(file.text, text[n + 1])) /\ pc' = pc
               ELSE file' = file /\ pc' = "s_done"
    /\ UNCHANGED <<mode, scoreVars, last_op, syncVars, retryVars, pre, store, loaded,
                   load_raised, ordered_keys, mainVars>>

\* The with block closes the file.
SaveClose ==
    /\ mode = "save" /\ pc = "s_close"
    /\ pc' = "s_done"
    /\ UNCHANGED <<mode, scoreVars, last_op, syncVars, retryVars, fileVars, mainVars>>

\* The process is killed while it saves.
Crash ==
    /\ mode = "save" /\ pc \in {"s_open", "s_write", "s_close"}
    /\ pc' = "crashed"
    /\ UNCHANGED <<mode, scoreVars, last_op, syncVars, retryVars, fileVars, mainVars>>

\* The load of a later run.
LoadLater ==
    /\ mode = "save" /\ pc \in {"s_done", "crashed"}
    /\ loaded' = load_points(file).store
    /\ load_raised' = load_points(file).raised
    /\ pc' = IF pc = "crashed" THEN "reloaded_after_crash" ELSE "reloaded"
    /\ UNCHANGED <<mode, scoreVars, last_op, syncVars, retryVars, file, pre, store,
                   ordered_keys, mainVars>>

\* ------------------------------ the refresher's tiered order (main, step 3)
TierKeys == 1..MaxTierKeys

low_max == MAX_POINTS \div 3

mid_max == (2 * MAX_POINTS) \div 3

\* Points on and around the tier thresholds.
TierPoints == {0, low_max, low_max + 1, mid_max, mid_max + 1, MAX_POINTS}

TierStores == UNION {[S -> TierPoints] : S \in SUBSET TierKeys}

Tiers == {"high", "mid", "low"}

\* Tiers whose upper threshold belongs to the tier above.
TierThresholdsExclusive(p) ==
    IF p >= mid_max THEN "high" ELSE IF p >= low_max THEN "mid" ELSE "low"

TierOf(p) == IF p > mid_max THEN "high" ELSE IF p > low_max THEN "mid" ELSE "low"

\* tier_lists: entries with points <= 0 are filtered out.
tier_lists(pd) == [t \in Tiers |-> {k \in DOMAIN pd : pd[k] > 0 /\ TierOf(pd[k]) = t}]

\* top_picks: random.choice from each tier that is not empty.
PickSets(tl) ==
    {P \in SUBSET (UNION {tl[t] : t \in Tiers}) :
        \A t \in Tiers : Cardinality(P \cap tl[t]) = (IF tl[t] = {} THEN 0 ELSE 1)}

\* A remaining list that keeps the picked keys.
RemainingKeepsPicks(tl, used) == UNION {tl[t] : t \in Tiers}

\* remaining: the keys of the tiers that are not in used.
Remaining(tl, used) == (UNION {tl[t] : t \in Tiers}) \ used

\* random.shuffle: any order of the keys.
Orders(S) == {s \in [1..Cardinality(S) -> S] : NoRepeat(s)}

Tiering ==
    /\ mode = "tier" /\ pc = "tiering"
    /\ LET tl == tier_lists(store)
       IN \E P \in PickSets(tl) :
            \E top \in Orders(P), rest \in Orders(Remaining(tl, P)) :
                ordered_keys' = top \o rest
    /\ pc' = "done"
    /\ UNCHANGED <<mode, scoreVars, last_op, syncVars, retryVars, file, pre, store,
                   loaded, load_raised, mainVars>>

StoreInit ==
    /\ SyncIdle
    /\ RetryIdle
    /\ MainIdle
    /\ loaded = EmptyMap
    /\ load_raised = FALSE
    /\ ordered_keys = <<>>
    /\ \/ /\ mode = "load" /\ pc = "loading"
          /\ store = EmptyMap
          /\ \/ file = NoFile /\ pre = EmptyMap
             \/ /\ pre \in FileStores
                /\ file \in {[exists |-> TRUE, readable |-> r, text |-> Dump(pre)] :
                               r \in BOOLEAN}
             \/ /\ pre = EmptyMap
                /\ file \in {FileOf(x) : x \in NonObjectTexts \cup GarbageTexts}
       \/ /\ mode = "save" /\ pc = "s_open"
          /\ store \in FileStores
          /\ \/ file = NoFile /\ pre = EmptyMap
             \/ pre \in FileStores /\ file = FileOf(Dump(pre))
       \/ /\ mode = "tier" /\ pc = "tiering"
          /\ file = NoFile
          /\ pre = EmptyMap
          /\ store \in TierStores

StoreNext ==
    \/ LoadPoints
    \/ SaveOpen
    \/ SaveWrite
    \/ SaveClose
    \/ Crash
    \/ LoadLater
    \/ Tiering

StoreSpec == StoreInit /\ [][StoreNext]_vars

\* ================================================================ aging out
\* A series of TV scoring passes in none of which one show is recommended,
\* with the TV refresher's enrichment between them; `pre` keeps the store the
\* series began with.
AgedItem == CHOOSE i \in Items : \A j \in Items : i <= j

\* The points the entry of that show starts with.
AgePoints == (1..MaxAge) \cup {MAX_POINTS}

AgeStores ==
    {pd \in UNION {[S -> [points : StartPoints \cup AgePoints, tvdb_id : Items \cup {None}]] :
                     S \in SUBSET ScoreKeys} :
        /\ \A k \in DOMAIN pd :
              /\ pd[k].tvdb_id = (IF k[1] = "tvdb" THEN ItemOf(k) ELSE None)
              /\ pd[k].points \in (IF ItemOf(k) = AgedItem THEN AgePoints ELSE StartPoints)
        /\ \A i \in Items : ~(TitleKey(i) \in DOMAIN pd /\ TvdbKey(i) \in DOMAIN pd)
        /\ \E k \in DOMAIN pd : ItemOf(k) = AgedItem}

\* run_tv_pipeline with recommendations that leave the show out; the other
\* shows are recommended in the first MaxPasses passes only.
AgePass ==
    /\ mode = "age"
    /\ passes <= MAX_POINTS
    /\ \E idx \in ExistingTvdbToKey(points_data),
          rs \in (IF passes < MaxPasses
                  THEN SeqsUpTo(Items \ {AgedItem}, MaxRecs) ELSE {<<>>}) :
        \E known \in SUBSET Range(rs) :
            LET res == tv_points_update(points_data, rs, known, idx)
            IN /\ points_data' = res.pd
               /\ stats' = res.stats
               /\ recs' = rs
               /\ tvdb_known' = known
    /\ passes' = passes + 1
    /\ last_op' = "tv_pass"
    /\ UNCHANGED <<mode, pc, syncVars>>
    /\ UNCHANGED <<retryVars, fileVars, mainVars>>

\* The TV refresher between two passes.
AgeEnrich ==
    /\ mode = "age"
    /\ \E inPlex \in SUBSET Items :
        /\ EnrichEntries(points_data, inPlex) # points_data
        /\ points_data' = EnrichEntries(points_data, inPlex)
    /\ last_op' = "tv_refresher"
    /\ UNCHANGED <<mode, pc, passes, recs, tvdb_known, stats, syncVars>>
    /\ UNCHANGED <<retryVars, fileVars, mainVars>>

AgeInit ==
    /\ RetryIdle
    /\ MainIdle
    /\ mode = "age"
    /\ pc = "idle"
    /\ points_data \in AgeStores
    /\ pre = points_data
    /\ file = NoFile
    /\ store = EmptyMap
    /\ loaded = EmptyMap
    /\ load_raised = FALSE
    /\ ordered_keys = <<>>
    /\ ScoreIdle
    /\ NoCollection
    /\ RunIdle
    /\ rating_keys = <<>>
    /\ allowed_types = "absent"
    /\ movie_points = EmptyMap
    /\ plex_movies_this_run = <<>>
    /\ randomize = FALSE

AgeNext ==
    \/ AgePass
    \/ AgeEnrich

AgeSpec == AgeInit /\ [][AgeNext]_vars

\* ============================================= refreshers and the points file
\* A refresher run from its load of the points file to its write of it, with
\* the TV scoring pass as a second process on the same file. `store` is what
\* a load of the file returns, `loaded` the refresher's points_data, `pre`
\* the file as the refresher found it, points_data what the last scoring
\* pass saved.
RefDomains == {"movie", "tv"}

\* The refresher holds its points_data and has not written it yet.
RefWindow == {"f_tier", "f_resolve", "f_write"}

\* open(path, "w") and json.dump(data, f): the whole document, nothing when
\* the open fails, and a cut-off document, which loads as {}, when the dump
\* fails on the way.
WriteOutcomes == {"ok", "open_failed", "cut"}

WritePoints(before, data, how) ==
    IF how = "ok" THEN data
    ELSE IF how = "open_failed" THEN before
    ELSE EmptyMap

\* The keys and the points of a store, without the metadata.
StorePoints(st) ==
    [k \in DOMAIN st |-> IF media_type = "tv" THEN get_points(st[k]) ELSE st[k]]

refFrame == <<mode, recs, tvdb_known, stats, serverVars, resolveVars, runVars,
              refreshVars, orderVars, last_call, moves, retryVars, file, pre,
              load_raised, entry_point, dry_run, exit_code, connects, exc,
              missing_keys, media_type, interrupted>>

\* Step 2 of both refreshers: load the points file; nothing to do when it is
\* empty.
RefLoad ==
    /\ mode = "ref" /\ pc = "f_load"
    /\ loaded' = store
    /\ pc' = IF store = EmptyMap THEN "f_done"
             ELSE IF media_type = "movie" THEN "f_tier" ELSE "f_resolve"
    /\ UNCHANGED <<refFrame, passes, points_data, last_op, store, ordered_keys, calls>>

\* Movie refresher, step 3: the tiered order of the loaded keys.
RefTier ==
    /\ mode = "ref" /\ pc = "f_tier"
    /\ LET tl == tier_lists(loaded)
       IN \E P \in PickSets(tl) :
            \E top \in Orders(P), rest \in Orders(Remaining(tl, P)) :
                ordered_keys' = top \o rest
    /\ pc' = "f_write"
    /\ UNCHANGED <<refFrame, passes, points_data, last_op, store, loaded, calls>>

\* TV refresher, steps 3 and 4: connect (an error ends the run), then
\* resolve the entries against the library and enrich them in points_data;
\* the file is written only when an entry changed.
RefResolve ==
    /\ mode = "ref" /\ pc = "f_resolve"
    /\ \E ok \in BOOLEAN, inPlex \in SUBSET Items :
        IF ~ok THEN loaded' = loaded /\ pc' = "f_done"
        ELSE /\ loaded' = EnrichEntries(loaded, inPlex)
             /\ pc' = IF loaded' # loaded THEN "f_write" ELSE "f_done"
    /\ UNCHANGED <<refFrame, passes, points_data, last_op, store, ordered_keys, calls>>

\* The mapping the movie refresher writes back: the loaded entries in the
\* tiered order.
ordered_points_data(pd, keys) == [k \in Range(keys) \cap DOMAIN pd |-> pd[k]]

\* The write of the points file: the movie refresher's rewrite in tiered
\* order, skipped on a key mismatch, and the TV refresher's _save_points.
\* Neither looks at --dry-run.
RefWrite ==
    /\ mode = "ref" /\ pc = "f_write"
    /\ LET data == IF media_type = "movie"
                   THEN ordered_points_data(loaded, ordered_keys) ELSE loaded
           skip == /\ media_type = "movie"
                   /\ Cardinality(DOMAIN data) # Cardinality(DOMAIN loaded)
       IN IF skip THEN UNCHANGED <<store, loaded, calls>>
          ELSE \E how \in WriteOutcomes :
                /\ store' = WritePoints(store, data, how)
                /\ loaded' = IF how = "ok" THEN data ELSE loaded
                /\ calls' = calls \cup {Call("write_points", <<how>>)}
    /\ pc' = "f_done"
    /\ UNCHANGED <<refFrame, passes, points_data, last_op, ordered_keys>>

\* run_tv_pipeline as another process: load, score, save, in one step.
RefScoringPass ==
    /\ mode = "ref" /\ media_type = "tv"
    /\ passes < MaxRefPasses
    /\ \E idx \in ExistingTvdbToKey(store), rs \in SeqsUpTo(Items, MaxRecs) :
        \E known \in SUBSET Range(rs) :
            LET res == tv_points_update(store, rs, known, idx)
            IN /\ points_data' = res.pd
               /\ store' = res.pd
    /\ passes' = passes + 1
    /\ last_op' = IF pc \in RefWindow THEN "pass_in_window" ELSE "pass_outside"
    /\ UNCHANGED <<refFrame, pc, loaded, ordered_keys, calls>>

RefInit ==
    /\ RetryIdle
    /\ ScoreIdle
    /\ NoCollection
    /\ RunIdle
    /\ rating_keys = <<>>
    /\ allowed_types = "absent"
    /\ movie_points = EmptyMap
    /\ plex_movies_this_run = <<>>
    /\ randomize = FALSE
    /\ points_data = EmptyMap
    /\ entry_point = "none"
    /\ exit_code = NoExit
    /\ connects = 0
    /\ exc = "none"
    /\ missing_keys = 0
    /\ interrupted = FALSE
    /\ mode = "ref" /\ pc = "f_load"
    /\ dry_run \in BOOLEAN
    /\ media_type \in RefDomains
    /\ store \in (IF media_type = "movie" THEN TierStores ELSE StartStores)
    /\ pre = store
    /\ file = NoFile
    /\ loaded = EmptyMap
    /\ load_raised = FALSE
    /\ ordered_keys = <<>>

RefNext ==
    \/ RefLoad
    \/ RefTier
    \/ RefResolve
    \/ RefWrite
    \/ RefScoringPass

RefSpec == RefInit /\ [][RefNext]_vars

\* ============================================================ entry points
\* The main() functions: the two refreshers step by step (configuration,
\* points file, connection, library section, lookup, the apply call or the
\* dry-run branch, the final status), the orchestrator as its sequence of
\* sub-steps with their handlers, and the TV collection script around
\* run_tv_pipeline. The apply call of a refresher runs the apply actions above.
Entries == {"movie_refresher", "tv_refresher", "orchestrator", "tv_collection"}

Refreshers == {"movie_refresher", "tv_refresher"}

\* Keys a refresher looks up in one run.
MaxKeys == 2

\* max_retries of the pipelines' connection.
PIPELINE_MAX_RETRIES == 3

\* What no step of a main() itself changes.
mainRest == <<mode, scoreVars, last_op, serverVars, allowed_types, k_idx, fetched,
              desired_items, failed_keys, filtered_non_movies, collection,
              coll_found, existing_items, remove_status, add_status, refreshVars,
              orderVars, logVars, retryVars, fileVars, entry_point, dry_run,
              media_type>>

\* `except Exception` of a script: exit code 20 for Timeout, requests'
\* ConnectionError, ReadTimeoutError and ConnectTimeoutError, 30 otherwise.
ExitOf(class) == IF class = "dependency" THEN 20 ELSE 30

MainReturn(code) ==
    /\ exit_code' = code
    /\ pc' = "exited"

MainExcept(at, class) ==
    /\ exc' = class
    /\ raised_at' = at
    /\ result' = "raised"
    /\ MainReturn(ExitOf(class))

\* How a direct call to the server ends.
CallOutcomes == {"ok", "dependency", "internal"}

\* load_config() inside the try.
RefresherConfig ==
    /\ entry_point \in Refreshers /\ pc = "m_config"
    /\ \E ok \in BOOLEAN :
        IF ok THEN pc' = "m_points" /\ UNCHANGED <<result, raised_at, exit_code, exc>>
        ELSE MainExcept(pc, "internal")
    /\ UNCHANGED <<rating_keys, attempt, connects, missing_keys, interrupted, mainRest>>

PointsFiles == {"missing", "empty", "ok"}

\* The exit code the state of the points file leads to, or NoExit to go on.
\* The movie refresher tests points_path.exists() first; both return 0 on an
\* empty load.
PointsFileExit(ep, pf) ==
    IF pf = "ok" THEN NoExit
    ELSE IF ep = "movie_refresher" /\ pf = "missing" THEN 1
    ELSE 0

RefresherPoints ==
    /\ entry_point \in Refreshers /\ pc = "m_points"
    /\ \E pf \in PointsFiles :
        LET code == PointsFileExit(entry_point, pf)
        IN IF code = NoExit THEN pc' = "m_connect" /\ UNCHANGED exit_code
           ELSE MainReturn(code)
    /\ UNCHANGED <<rating_keys, attempt, result, raised_at, connects, exc,
                   missing_keys, interrupted, mainRest>>

\* PlexServer(url, token, timeout=30), called once; the handlers around it log
\* and re-raise.
RefresherConnect ==
    /\ entry_point \in Refreshers /\ pc = "m_connect"
    /\ connects' = connects + 1
    /\ \E out \in CallOutcomes :
        IF out = "ok"
        THEN pc' = "m_section" /\ UNCHANGED <<result, raised_at, exit_code, exc>>
        ELSE MainExcept(pc, out)
    /\ UNCHANGED <<rating_keys, attempt, missing_keys, interrupted, mainRest>>

\* plex.library.section(name), called once.
RefresherSection ==
    /\ entry_point \in Refreshers /\ pc = "m_section"
    /\ \E out \in CallOutcomes :
        IF out = "ok"
        THEN pc' = "m_fetch" /\ UNCHANGED <<result, raised_at, exit_code, exc>>
        ELSE MainExcept(pc, out)
    /\ UNCHANGED <<rating_keys, attempt, connects, missing_keys, interrupted, mainRest>>

\* A refresher that applies the state whatever --dry-run says.
DryRunIgnored(dry) == "a_call"

\* After the lookup: the dry-run branch only logs.
AfterFetch(dry) == IF dry THEN "m_status" ELSE "a_call"

\* The keys a refresher of this kind can resolve.
KeysOf(ep) == IF ep = "tv_refresher" THEN ShowKeys ELSE MovieKeys

\* The refresher's own lookup of every key: the items found, of the wanted
\* type, in order, and whether some key was not found.
RefresherFetch ==
    /\ entry_point \in Refreshers /\ pc = "m_fetch"
    /\ \E items \in {s \in SeqsUpTo(KeysOf(entry_point), MaxKeys) : NoRepeat(s)},
          missing \in 0..1 :
        /\ rating_keys' = items
        /\ missing_keys' = missing
        /\ IF items = <<>> THEN MainReturn(0)
           ELSE pc' = AfterFetch(dry_run) /\ UNCHANGED exit_code
    /\ UNCHANGED <<attempt, result, raised_at, connects, exc, interrupted, mainRest>>

\* stats.get("order_stats"): the failed count the caller reads from what apply
\* returned.
order_failed ==
    IF "order_stats" \in DOMAIN ApplyReturn THEN ApplyReturn.order_stats ELSE 0

\* The class of the exception that left apply at a step.
ApplyExcClasses(at) ==
    IF at \in {"a_connect", "a_collection"} THEN {"dependency", "internal"}
    ELSE {"internal"}

\* The final status of a run that was not a dry run.
StatusExit(ep) ==
    IF ep = "movie_refresher"
    THEN (IF missing_keys > 0 \/ order_failed > 0 THEN 10 ELSE 0)
    ELSE (IF order_failed > 0 THEN 10 ELSE 0)

\* After the dry-run branch or the apply call: the summary and the exit code,
\* or the handler of the exception apply raised.
RefresherStatus ==
    /\ entry_point \in Refreshers
    /\ \/ /\ pc = "m_status"
          /\ MainReturn(0)
          /\ UNCHANGED <<result, raised_at, exc>>
       \/ /\ pc = "done" /\ result = "returned"
          /\ MainReturn(StatusExit(entry_point))
          /\ UNCHANGED <<result, raised_at, exc>>
       \/ /\ pc = "done" /\ result = "raised"
          /\ \E class \in ApplyExcClasses(raised_at) : MainExcept(raised_at, class)
    /\ UNCHANGED <<rating_keys, attempt, connects, missing_keys, interrupted, mainRest>>

\* ------------------------------------------------------------ orchestrator
\* The sub-steps of a trigger, in order; each is skipped when the
\* configuration disables it.
OrchSteps(mt) ==
    IF mt = "movie"
    THEN <<"x_recent", "x_dup", "x_radarr", "x_sonarr_dup", "x_sonarr_confirm",
           "x_search", "x_pipeline", "x_rw_refresher", "x_refresher">>
    ELSE <<"x_tv_pipeline", "x_tv_refresher">>

OrchAfter(mt, p) ==
    LET steps == OrchSteps(mt)
        i == CHOOSE j \in 1..Len(steps) : steps[j] = p
    IN IF i < Len(steps) THEN steps[i + 1] ELSE "x_return"

PipelineSteps == {"x_pipeline", "x_tv_pipeline"}

ConnectPcs == {"x_pipeline_connect", "x_tv_pipeline_connect", "t_connect"}

BodyPcs == {"x_pipeline_body", "x_tv_pipeline_body", "t_body"}

ConnectOf(p) ==
    CASE p = "x_pipeline" -> "x_pipeline_connect"
      [] p = "x_tv_pipeline" -> "x_tv_pipeline_connect"

BodyOf(p) ==
    CASE p = "x_pipeline_connect" -> "x_pipeline_body"
      [] p = "x_tv_pipeline_connect" -> "x_tv_pipeline_body"
      [] p = "t_connect" -> "t_body"

\* The sub-step a position of a pipeline belongs to.
StepOf(p) ==
    CASE p \in {"x_pipeline_connect", "x_pipeline_body"} -> "x_pipeline"
      [] p \in {"x_tv_pipeline_connect", "x_tv_pipeline_body"} -> "x_tv_pipeline"
      [] OTHER -> p

\* What the main() of a sub-script can return: recently_watched_collection,
\* the movie refresher, the TV refresher (whose apply call never returns).
RecentlyWatchedExits == {0, 1, 130}

MovieRefresherExits == {0, 1, 10, 20, 30, 130}

TvRefresherExits == {0, 20, 30, 130}

\* The recently-watched refresher, by the documented exit codes.
RwRefresherExits == {0, 10, 20, 30, 130}

SubExits(p) ==
    CASE p = "x_recent" -> RecentlyWatchedExits
      [] p = "x_rw_refresher" -> RwRefresherExits
      [] p = "x_refresher" -> MovieRefresherExits
      [] p = "x_tv_refresher" -> TvRefresherExits

\* How a sub-step that ran can end, short of an interrupt.
StepOutcomes(p) ==
    IF p \in {"x_recent", "x_rw_refresher", "x_refresher", "x_tv_refresher"}
    THEN {<<"returned", c>> : c \in SubExits(p)} \cup {<<"raised", 0>>}
    ELSE IF p = "x_search" THEN {<<"ok", 0>>, <<"false", 0>>, <<"raised", 0>>}
    ELSE {<<"ok", 0>>, <<"raised", 0>>}

\* exit_code after a sub-step: a code that is not 0 and a failure are merged
\* with max.
OrchMerge(cur, out) ==
    CASE out[1] = "ok" -> cur
      [] out[1] = "returned" -> Max({cur, out[2]})
      [] out[1] = "false" -> Max({cur, 20})
      [] out[1] = "partial" -> Max({cur, 10})
      [] out[1] = "raised" -> Max({cur, 30})

\* exit_code after the `except KeyboardInterrupt` of a sub-step.
OrchInterrupt(p, cur) ==
    IF p \in {"x_rw_refresher", "x_refresher"} THEN cur
    ELSE IF p = "x_tv_refresher" THEN Max({cur, 130})
    ELSE 130

\* The argument checks and load_config().
OrchStart ==
    /\ entry_point = "orchestrator" /\ pc = "x_args"
    /\ \E argc_ok \in BOOLEAN, config_ok \in BOOLEAN :
        IF ~argc_ok THEN MainReturn(30)
        ELSE IF media_type \notin {"movie", "episode"} THEN MainReturn(0)
        ELSE IF ~config_ok THEN MainReturn(30)
        ELSE exit_code' = 0 /\ pc' = OrchSteps(media_type)[1]
    /\ UNCHANGED <<rating_keys, attempt, result, raised_at, connects, exc,
                   missing_keys, interrupted, mainRest>>

\* One sub-step: skipped, or run to its end; a pipeline goes on to connect.
OrchStep ==
    /\ entry_point = "orchestrator" /\ pc \in Range(OrchSteps(media_type))
    /\ \E enabled \in BOOLEAN :
        IF ~enabled THEN pc' = OrchAfter(media_type, pc) /\ UNCHANGED exit_code
        ELSE IF pc \in PipelineSteps THEN pc' = ConnectOf(pc) /\ UNCHANGED exit_code
        ELSE \E out \in StepOutcomes(pc) :
                /\ exit_code' = OrchMerge(exit_code, out)
                /\ pc' = OrchAfter(media_type, pc)
    /\ UNCHANGED <<rating_keys, attempt, result, raised_at, connects, exc,
                   missing_keys, interrupted, mainRest>>

\* The exception retry_with_backoff re-raised leaves the pipeline: the
\* orchestrator's `except Exception` merges 30 and goes on, the TV collection
\* script returns by the class.
PipelineRaised(class) ==
    IF entry_point = "orchestrator"
    THEN /\ exc' = class
         /\ raised_at' = pc
         /\ exit_code' = Max({exit_code, 30})
         /\ pc' = OrchAfter(media_type, StepOf(pc))
         /\ UNCHANGED result
    ELSE MainExcept(pc, class)

\* The class of the last error of a connection that was given up.
FinalClasses(out) ==
    IF out = "retryable" THEN {"dependency", "internal"} ELSE {"internal"}

\* The pipelines' connection: retry_with_backoff(_connect_plex, max_retries=3,
\* raise_on_final_failure=True), one attempt per step.
PipelineConnect ==
    /\ entry_point \in {"orchestrator", "tv_collection"} /\ pc \in ConnectPcs
    /\ connects' = connects + 1
    /\ \E out \in Outcomes :
        LET r == RetryStep(attempt, out, PIPELINE_MAX_RETRIES, TRUE)
        IN CASE r = "success" ->
                  /\ pc' = BodyOf(pc) /\ attempt' = 0
                  /\ UNCHANGED <<result, raised_at, exit_code, exc>>
             [] r = "again" ->
                  /\ attempt' = attempt + 1
                  /\ UNCHANGED <<pc, result, raised_at, exit_code, exc>>
             [] OTHER ->
                  /\ attempt' = 0
                  /\ \E class \in FinalClasses(out) : PipelineRaised(class)
    /\ UNCHANGED <<rating_keys, missing_keys, interrupted, mainRest>>

\* How the rest of a pipeline ends; only run_tv_pipeline returns counts of
\* failed requests.
BodyOutcomes(p) ==
    IF p = "x_pipeline_body" THEN {"ok", "dependency", "internal"}
    ELSE {"ok", "partial", "dependency", "internal"}

\* The rest of the pipeline, after the connection.
PipelineBody ==
    /\ entry_point \in {"orchestrator", "tv_collection"} /\ pc \in BodyPcs
    /\ \E out \in BodyOutcomes(pc) :
        IF out \in {"dependency", "internal"} THEN PipelineRaised(out)
        ELSE /\ IF entry_point = "orchestrator"
                THEN /\ exit_code' = OrchMerge(exit_code, <<out, 0>>)
                     /\ pc' = OrchAfter(media_type, StepOf(pc))
                ELSE MainReturn(IF out = "partial" THEN 10 ELSE 0)
             /\ UNCHANGED <<result, raised_at, exc>>
    /\ UNCHANGED <<rating_keys, attempt, connects, missing_keys, interrupted, mainRest>>

\* The summary; `return exit_code`.
OrchReturn ==
    /\ entry_point = "orchestrator" /\ pc = "x_return"
    /\ pc' = "exited"
    /\ UNCHANGED <<rating_keys, attempt, result, raised_at, exit_code, connects,
                   exc, missing_keys, interrupted, mainRest>>

\* The TV collection script: the argument check, then run_tv_pipeline.
TvCollectionStart ==
    /\ entry_point = "tv_collection" /\ pc = "t_args"
    /\ \E argc_ok \in BOOLEAN :
        IF argc_ok THEN pc' = "t_connect" /\ UNCHANGED exit_code
        ELSE MainReturn(30)
    /\ UNCHANGED <<rating_keys, attempt, result, raised_at, connects, exc,
                   missing_keys, interrupted, mainRest>>

\* ---------------------------------------------------------------- interrupt
\* An ordering whose handlers catch the interrupt as they catch an error.
InterruptCaughtByOrdering(ep, p) ==
    IF p \in {"o_sort", "o_items", "o_loop"} THEN "ordering"
    ELSE IF ep = "orchestrator" /\ p \in Range(OrchSteps("movie")) \cup Range(OrchSteps("episode"))
              /\ p \notin PipelineSteps
         THEN "step"
    ELSE "main"

\* The handler a KeyboardInterrupt raised at a position reaches.
\* `except Exception` (ordering, apply, retry_with_backoff, the lookups) does
\* not catch it; a sub-step of the orchestrator other than a pipeline has its
\* own `except KeyboardInterrupt`; everything else ends in main()'s.
InterruptLandsAt(ep, p) ==
    IF ep = "orchestrator" /\ p \in Range(OrchSteps("movie")) \cup Range(OrchSteps("episode"))
       /\ p \notin PipelineSteps
    THEN "step"
    ELSE "main"

\* Ctrl-C while the run is inside main()'s try.
Interrupt ==
    /\ entry_point # "none" /\ ~interrupted
    /\ pc \notin {"exited", "x_args", "t_args", "x_return"}
    /\ interrupted' = TRUE
    /\ LET land == InterruptLandsAt(entry_point, pc)
       IN CASE land = "main" ->
                 /\ exc' = "KeyboardInterrupt"
                 /\ MainReturn(130)
            [] land = "step" ->
                 /\ exit_code' = OrchInterrupt(pc, exit_code)
                 /\ pc' = OrchAfter(media_type, pc)
                 /\ UNCHANGED exc
            [] land = "ordering" ->
                 /\ pc' = OrderReturn
                 /\ UNCHANGED <<exit_code, exc>>
    /\ UNCHANGED <<rating_keys, attempt, result, raised_at, connects,
                   missing_keys, mainRest>>

MainInit ==
    /\ RetryIdle
    /\ FileIdle
    /\ mode = "apply"
    /\ points_data = EmptyMap
    /\ ScoreIdle
    /\ InitServer
    /\ RunIdle
    /\ rating_keys = <<>>
    /\ movie_points = EmptyMap
    /\ plex_movies_this_run = <<>>
    /\ randomize = FALSE
    /\ entry_point \in Entries
    /\ allowed_types = IF entry_point = "tv_refresher" THEN "show" ELSE "absent"
    /\ dry_run \in (IF entry_point \in Refreshers THEN BOOLEAN ELSE {FALSE})
    /\ media_type \in (IF entry_point = "orchestrator"
                       THEN {"movie", "episode", "clip"} ELSE {"none"})
    /\ pc = (CASE entry_point \in Refreshers -> "m_config"
               [] entry_point = "orchestrator" -> "x_args"
               [] OTHER -> "t_args")
    /\ exit_code = NoExit
    /\ connects = 0
    /\ exc = "none"
    /\ missing_keys = 0
    /\ interrupted = FALSE

MainNext ==
    \/ RefresherConfig
    \/ RefresherPoints
    \/ RefresherConnect
    \/ RefresherSection
    \/ RefresherFetch
    \/ ApplyCall
    \/ ApplyConnect
    \/ ApplyGetCollection
    \/ ApplyResolve
    \/ ApplyRemove
    \/ ApplyAdd
    \/ ApplyCreateArt
    \/ ApplyOrder
    \/ ApplyArt
    \/ OrderSort
    \/ OrderItems
    \/ OrderLoop
    \/ RefresherStatus
    \/ OrchStart
    \/ OrchStep
    \/ PipelineConnect
    \/ PipelineBody
    \/ OrchReturn
    \/ TvCollectionStart
    \/ Interrupt

MainSpec == MainInit /\ [][MainNext]_vars

\* ================================================================ claims
\* The membership the run fetched and the membership it wants.
CurrentSet == IF mode = "apply" THEN Range(existing_items) ELSE Range(current)

DesiredSet == IF mode = "apply" THEN Range(desired_items) ELSE Range(final_items)

SuggestedKeys(rs, known) == {tv_points_key(i, TvdbIdOf(i, known)) : i \in Range(rs)}

\* The title keys the pass moves to the TVDB key of a recommendation.
MigratedKeys(pd, known) ==
    {k \in DOMAIN pd : /\ k = TitleKey(ItemOf(k))
                        /\ pd[k].tvdb_id \in known
                        /\ TvdbKey(pd[k].tvdb_id) \notin DOMAIN pd}

\* C2: in every TV scoring pass an entry that is not among the suggested ones
\* (not scored under a suggested key, nor moved to one by the migration) ends
\* with points_before - 1, and is removed iff that is <= 0.
DecayMonotonicity ==
    [][passes' = passes + 1 =>
        \A k \in (DOMAIN points_data) \ (SuggestedKeys(recs', tvdb_known')
                                             \cup MigratedKeys(points_data, tvdb_known')) :
            LET after == points_data[k].points - 1
            IN /\ (k \notin DOMAIN points_data') <=> (after <= 0)
               /\ k \in DOMAIN points_data' => points_data'[k].points = after]_vars

\* C2 witness: after a pass with suggestions, an entry of a show that was not
\* suggested survives with its decayed points, and another entry was removed.
DecayWitness ==
    /\ last_op = "tv_pass"
    /\ recs # <<>>
    /\ stats.removed >= 1
    /\ \E k \in DOMAIN points_data :
        ItemOf(k) \notin Range(recs) /\ points_data[k].points = 1

\* The points an item held before a pass, under the key it is scored by
\* (or under the title key the pass migrates from); 0 for a new entry.
PointsBefore(pd, i, key) ==
    IF key \in DOMAIN pd THEN pd[key].points
    ELSE IF key = TvdbKey(i) /\ TitleKey(i) \in DOMAIN pd /\ pd[TitleKey(i)].tvdb_id = i
         THEN pd[TitleKey(i)].points
    ELSE 0

Count(s, x) == Cardinality({n \in 1..Len(s) : s[n] = x})

KeyMigration ==
    last_op = "tv_pass" =>
        \A i \in tvdb_known :
            TvdbKey(i) \in DOMAIN points_data /\ TitleKey(i) \notin DOMAIN points_data

\* The item of the last successful move before move n, or None.
LastOkBefore(n) ==
    LET S == {j \in 1..(n - 1) : moves[j].ok}
    IN IF S = {} THEN None ELSE moves[Max(S)].item

\* C6: every move is anchored on the item of the most recent successful move
\* (move-to-front when there is none), never on an item whose move failed.
AnchorRecovery ==
    \A n \in 1..Len(moves) : moves[n].after = LastOkBefore(n)

\* C6 witness: a move succeeded, the next failed, and a third was issued.
AnchorWitness ==
    \E n \in 2..(Len(moves) - 1) : moves[n - 1].ok /\ ~moves[n].ok

\* C7: when a remove call is issued no add, create, sort or move call has been
\* issued, and when an add or create call is issued no sort or move call has.
PhaseOrdering ==
    /\ last_call = "remove" => Ops \cap {"add", "create", "sort", "move"} = {}
    /\ last_call \in {"add", "create"} => Ops \cap {"sort", "move"} = {}

\* C7 witness: one run issued remove, add, sort and move calls.
PhaseWitness ==
    /\ pc = "done"
    /\ {"remove", "add", "sort", "move"} \subseteq Ops

\* The run has items to add, and has an ordering to impose.
WantsAdd == IF mode = "apply" THEN desired_items # <<>> ELSE to_add # <<>>

WantsOrder == IF mode = "apply" THEN desired_items # <<>> ELSE randomize

\* C8: a removal or an addition that finally failed never raises out of the
\* run; after a failed removal the addition is still issued, and after a
\* failed addition the ordering is still attempted.
BestEffortPhases ==
    /\ remove_status = "failed" => result # "raised"
    /\ add_status = "failed" /\ "add" \in Ops => result # "raised"
    /\ pc = "done" /\ remove_status = "failed" /\ WantsAdd => "add" \in Ops
    /\ pc = "done" /\ add_status = "failed" /\ "add" \in Ops /\ WantsOrder =>
          "sort" \in Ops

\* C8 witness: a run returned after its removal and its addition both failed
\* and its ordering was attempted.
BestEffortWitness ==
    /\ result = "returned"
    /\ remove_status = "failed"
    /\ add_status = "failed"
    /\ {"remove", "add", "sort"} \subseteq Ops

\* C9 as stated: a run that found no collection and has a desired item creates
\* the collection and ends with a handle on it.
CreateWhenMissing ==
    (result = "returned" /\ ~coll_found /\ DesiredSet # {}) =>
        /\ "create" \in Ops
        /\ coll_exists
        /\ collection = "handle"

\* C9 for the snapshot apply alone: the collection is created with the
\* resolved desired items and the ordering and artwork run on the created
\* collection.
CreateWhenMissingApply ==
    (mode = "apply" /\ result = "returned" /\ ~coll_found /\ desired_items # <<>>) =>
        /\ Call("create", desired_items) \in calls
        /\ coll_exists
        /\ collection = "handle"
        /\ Range(members) = Range(desired_items)
        /\ {"sort", "art"} \subseteq Ops
        /\ Ops \cap {"add", "remove"} = {}

\* The keys among the first n snapshot keys whose lookup did not find an item.
RECURSIVE Unresolved(_)
Unresolved(n) ==
    IF n = 0 THEN <<>>
    ELSE IF fetched[n] # "found" THEN Append(Unresolved(n - 1), rating_keys[n])
    ELSE Unresolved(n - 1)

\* C10: every snapshot key whose lookup fails, NotFound or any other error, is
\* dropped from the desired items and counted in failed_keys; the loop goes on
\* to the remaining keys and the run never raises from the lookup.
UnresolvedDropped ==
    /\ Len(fetched) = k_idx
    /\ failed_keys = Unresolved(k_idx)
    /\ \A j \in 1..k_idx :
          fetched[j] # "found" => rating_keys[j] \notin Range(desired_items)
    /\ raised_at # "a_resolve"
    /\ (mode = "apply" /\ pc \notin {"a_call", "a_connect", "a_collection", "a_resolve"}
          /\ raised_at \notin {"a_call", "a_connect", "a_collection"})
            => k_idx = Len(rating_keys)

\* C10 witness: a run returned although a lookup raised an error, and a key
\* after the failed one was resolved.
UnresolvedWitness ==
    /\ result = "returned"
    /\ \E j \in 1..(Len(fetched) - 1) : fetched[j] = "error" /\ fetched[j + 1] = "found"
    /\ Len(failed_keys) >= 1

\* The kind the caller declares for its collection: show for the TV
\* refresher, movie for the movie refresher.
DeclaredKind == IF allowed_types = "absent" THEN "movie" ELSE allowed_types

\* Every snapshot key is in exactly one of desired, unresolved, wrong-kind.
KeysPartitioned ==
    /\ Range(rating_keys) =
          Range(desired_items) \cup Range(failed_keys) \cup Range(filtered_non_movies)
    /\ Len(desired_items) + Len(failed_keys) + Len(filtered_non_movies)
          = Len(rating_keys)

\* C11 as stated: only resolved items of the collection's declared kind reach
\* the create, add and move calls, and a run that the server let through the
\* connection and the collection lookup ends with every snapshot key in
\* exactly one of desired (declared kind), unresolved, wrong-kind.
KindFilter ==
    /\ \A c \in calls :
          c.op \in {"create", "add"} => \A k \in Range(c.arg) : Kind(k) = DeclaredKind
    /\ \A n \in 1..Len(moves) : Kind(moves[n].item) = DeclaredKind
    /\ (mode = "apply" /\ pc = "done" /\ raised_at \notin {"a_connect", "a_collection"}) =>
          /\ KeysPartitioned
          /\ \A k \in Range(desired_items) : Kind(k) = DeclaredKind
          /\ \A k \in Range(filtered_non_movies) : Kind(k) # DeclaredKind
          /\ \A n \in 1..Len(fetched) :
                fetched[n] = "found" /\ Kind(rating_keys[n]) = DeclaredKind
                    => rating_keys[n] \in Range(desired_items)

\* C11 for the movie collection alone: the same statement over the runs whose
\* caller passes no allowed_types.
KindFilterMovie == allowed_types = "absent" => KindFilter

\* A movie-collection run that resolved a show and a movie, dropped the show
\* and added the movie.
KindFilterMovieWitness ==
    /\ allowed_types = "absent"
    /\ result = "returned"
    /\ filtered_non_movies # <<>>
    /\ Call("add", desired_items) \in calls

\* The latest invocation of the operation.
LastCall == history[Len(history)]

\* The latest invocation raised.
LastRaised == history # <<>> /\ LastCall.kind = "raise"

\* C12: retry_with_backoff invokes the operation at most max_retries + 1
\* times, exactly max_retries + 1 times when every attempt failed with a
\* retryable error, and terminates: every iteration either ends the call or
\* strictly decreases max_retries - attempt, which is never negative.
AttemptsBounded ==
    [][mode = "retry" =>
        /\ Len(history') <= max_retries + 1
        /\ (pc' = "done" /\ \A n \in 1..Len(history') : history'[n].class = "retryable")
              => Len(history') = max_retries + 1
        /\ pc = "calling" =>
              /\ max_retries - attempt >= 0
              /\ pc' = "done" \/ max_retries - attempt' < max_retries - attempt
              /\ Len(history') = Len(history) + 1]_vars

\* C12 witness: a call with max_retries = 2 ended after three attempts that
\* all failed with a retryable error.
AttemptsWitness ==
    /\ mode = "retry" /\ pc = "done"
    /\ max_retries = 2
    /\ Len(history) = 3
    /\ \A n \in 1..3 : history[n].class = "retryable"

\* C13: an attempt that fails with an HTTP status in [400,500) is the last
\* one and is followed by no sleep; when it is the first attempt the
\* operation was invoked exactly once and nothing was slept, whatever
\* max_retries is.
ClientErrorNotRetried ==
    (mode = "retry" /\ LastRaised /\ last_exception.status = "4xx") =>
        /\ pc = "done"
        /\ LastCall.class = "permanent"
        /\ Len(sleeps) = Len(history) - 1
        /\ Len(history) = 1 => sleeps = <<>>

\* C13 witness: with max_retries = 2 the first attempt failed with a 4xx
\* status and the call ended there.
ClientErrorWitness ==
    /\ mode = "retry" /\ pc = "done"
    /\ max_retries = 2
    /\ Len(history) = 1
    /\ last_exception.status = "4xx"
    /\ sleeps = <<>>

\* A bad-request, unauthorized or not-found failure: a BadRequest or NotFound
\* error, or a message with an authorization or not-found marker.
PermanentKind(e) ==
    \/ e.type \in {"BadRequest", "NotFound"}
    \/ e.markers \cap {"auth", "authentication", "notfound"} # {}

\* The tests that come before the permanent ones: a timeout or connection
\* error by class, a 5xx status, a transient marker in the message.
TransientFirst(e) ==
    \/ e.type \in {"Timeout", "ConnectionError"}
    \/ e.status = "5xx"
    \/ e.markers \cap {"transient", "overloaded"} # {}

FinalFailureContract ==
    (mode = "retry" /\ pc = "done" /\ LastRaised) =>
        IF raise_on_final_failure
        THEN propagated = last_exception /\ propagated # NoExc /\ ret = NoReturn
        ELSE ret = <<"None", FALSE>> /\ propagated = NoExc

\* C15 witness: retries were exhausted and the last error was propagated.
FinalFailureWitness ==
    /\ mode = "retry" /\ pc = "done"
    /\ raise_on_final_failure
    /\ max_retries = 2 /\ Len(history) = 3
    /\ LastCall.class = "retryable"
    /\ propagated = last_exception /\ propagated # NoExc

\* C16: the call returns succeeded = true iff an invocation returned; that
\* invocation is the last one, and its value is the result.
SuccessIffReturned ==
    mode = "retry" =>
        /\ \A n \in 1..Len(history) :
              history[n].kind = "return" =>
                  n = Len(history) /\ pc = "done" /\ ret = <<history[n].value, TRUE>>
        /\ (pc = "done" /\ ret # NoReturn) =>
              (ret[2] <=> LastCall.kind = "return")
        /\ (pc = "done" /\ ret = NoReturn) => LastRaised

\* C16 witness: the second attempt returned a value after a first failure.
SuccessWitness ==
    /\ mode = "retry" /\ pc = "done"
    /\ Len(history) = 2
    /\ history[1].kind = "raise"
    /\ history[2].kind = "return" /\ history[2].value = "v"
    /\ ret = <<"v", TRUE>>

\* C17: safe_execute invokes the operation once, returns its value when it
\* returns, and default_return, without raising or retrying, when it raises.
SafeExecuteContract ==
    mode = "safe" =>
        /\ Len(history) <= 1
        /\ sleeps = <<>>
        /\ propagated = NoExc
        /\ pc = "done" =>
              /\ Len(history) = 1
              /\ ret = IF history[1].kind = "return" THEN <<history[1].value>>
                       ELSE <<default_return>>

\* C17 witness: the operation raised and default_return came back.
SafeExecuteWitness ==
    /\ mode = "safe" /\ pc = "done"
    /\ history[1].kind = "raise"
    /\ default_return = "d"
    /\ ret = <<"d">>

\* The steps of _apply_custom_order.
OrderPcs == {"o_sort", "o_items", "o_loop"}

\* The switch to the custom sort mode was tried and failed (a run starts with
\* the collection in its default mode).
SortFailed == Call("sort", <<>>) \in calls /\ sort_mode # "custom"

\* C18: when the switch of the collection's sort mode to custom fails,
\* _apply_custom_order issues no move call at all, goes no further, and the
\* run does not raise.
SortFailureAborts ==
    SortFailed =>
        /\ moves = <<>>
        /\ "move" \notin Ops
        /\ successful_moves = 0
        /\ pc \notin {"o_items", "o_loop"}
        /\ result # "raised"

\* C18 witness: a run ended after a failed sort switch although items of
\* the wanted order were members that could have been moved.
SortFailureWitness ==
    /\ SortFailed
    /\ pc = "done" /\ result = "returned"
    /\ Range(ordered_items) \cap Range(members) # {}
    /\ moves = <<>>

\* C19: an item of ordered_items that is not a member of the collection gets
\* no move call, is recorded as failed, and leaves the anchor as it was; so
\* every move call ever issued is for a member.
SkipsNonMembers ==
    [][/\ (pc = "o_loop" /\ o_idx < Len(ordered_items)
             /\ ordered_items[o_idx + 1] \notin Range(members)) =>
            /\ calls' = calls
            /\ moves' = moves
            /\ members' = members
            /\ prev_id' = prev_id
            /\ failed_moves' = Append(failed_moves,
                    [item_id |-> ordered_items[o_idx + 1], reason |-> "not in collection"])
            /\ o_idx' = o_idx + 1
       /\ \A n \in 1..Len(moves') : moves'[n].item \in Range(members')]_vars

\* C19 witness: against a non-empty membership snapshot an item that is not
\* a member was skipped, and an item after it was moved.
SkipWitness ==
    /\ pc = "o_loop"
    /\ current_collection_items # {}
    /\ moves # <<>>
    /\ \E i, j \in 1..o_idx :
          /\ i < j
          /\ ordered_items[i] \notin Range(members)
          /\ \E n \in 1..Len(failed_moves) :
                failed_moves[n] = [item_id |-> ordered_items[i], reason |-> "not in collection"]
          /\ moves[Len(moves)].item = ordered_items[j]

\* C20: no step of the reordering raises or changes the membership or the
\* counts, whatever the sort switch and each move do; a run of
\* apply_collection_state_to_plex that entered the reordering returns.
OrderingNeverAborts ==
    [][/\ pc \in OrderPcs =>
            /\ result' # "raised"
            /\ raised_at' = raised_at
            /\ pc' \in OrderPcs \cup {OrderReturn}
            /\ coll_exists' = coll_exists
            /\ Range(members') = Range(members)
            /\ ApplyReturn' = ApplyReturn
       /\ (mode' = "apply" /\ pc' = "done" /\ ordered_items' # <<>>) =>
            result' = "returned"]_vars

\* C20 witness: every move of a run failed, at least two of them, and
\* apply_collection_state_to_plex returned with the wanted items added.
OrderingFailedWitness ==
    /\ mode = "apply" /\ pc = "done" /\ result = "returned"
    /\ Len(moves) >= 2
    /\ \A n \in 1..Len(moves) : ~moves[n].ok
    /\ add_status = "ok"
    /\ Range(desired_items) \subseteq Range(members)

\* final_items as build_final_items_with_points left it: after the scoring
\* and before the shuffle of the reordering step.
FinalItemsBuilt ==
    /\ mode = "refresh"
    /\ last_op = "legacy_pass"
    /\ pc \in {"r_current", "r_remove", "r_add", "r_art", "r_order"}

\* C27: the presentation order build_final_items_with_points produces is
\* sorted by points descending and, among equal points, by title ascending.
PresentationOrder ==
    FinalItemsBuilt =>
        \A i, j \in 1..Len(final_items) :
            i < j =>
                \/ movie_get_points(movie_points, final_items[i])
                     > movie_get_points(movie_points, final_items[j])
                \/ /\ movie_get_points(movie_points, final_items[i])
                        = movie_get_points(movie_points, final_items[j])
                   /\ Title(final_items[i]) <= Title(final_items[j])

\* C24: load_points and _load_points raise nothing; a missing file, a text
\* that is no JSON and a JSON document that is not an object each give the
\* empty store, and an object gives the store it holds.
LoadNeverFails ==
    (mode = "load" /\ pc = "done") =>
        /\ ~load_raised
        /\ (~file.exists \/ ~file.readable \/ json_load(file.text).kind # "object")
              => loaded = EmptyMap
        /\ (file.exists /\ file.readable /\ json_load(file.text).kind = "object")
              => loaded = pre

\* C24 witness: a file whose text is no JSON was loaded as the empty store.
LoadWitness ==
    /\ mode = "load" /\ pc = "done"
    /\ file.exists /\ file.readable
    /\ file.text \in GarbageTexts
    /\ loaded = EmptyMap /\ ~load_raised

\* C25: when the process is killed at any point of the save, a later load
\* gives the complete store of before the pass or the complete store of
\* after it.
AtomicWriteBack ==
    (mode = "save" /\ pc = "reloaded_after_crash") => loaded \in {pre, store}

\* C28: the first k keys of the tiered order, k the number of non-empty
\* tiers, are one key of each non-empty tier; the order holds every key with
\* points > 0 once, so the other keys follow after those k.
TieredOrder ==
    (mode = "tier" /\ pc = "done") =>
        LET tl == tier_lists(store)
            ranked == UNION {tl[t] : t \in Tiers}
            k == Cardinality({t \in Tiers : tl[t] # {}})
        IN /\ k <= 3
           /\ Len(ordered_keys) = Cardinality(ranked)
           /\ Range(ordered_keys) = ranked
           /\ NoRepeat(ordered_keys)
           /\ \A t \in Tiers :
                 tl[t] # {} => Cardinality({i \in 1..k : ordered_keys[i] \in tl[t]}) = 1

\* C28 witness: two tiers are populated, three keys are ordered, and the key
\* that follows the two picks shares its tier with one of them.
TieredWitness ==
    /\ mode = "tier" /\ pc = "done"
    /\ Len(ordered_keys) = 3
    /\ Cardinality({t \in Tiers : tier_lists(store)[t] # {}}) = 2
    /\ TierOf(store[ordered_keys[1]]) # TierOf(store[ordered_keys[2]])

\* ------------------------------------------------------------ entry points
\* An entry point has run to its end.
Ended == entry_point # "none" /\ pc = "exited"

ExitCodes == {0, 10, 20, 30, 130}

\* C21: every run of an entry point ends with an exit code among 0, 10, 20,
\* 30 and 130. The movie refresher returns 1 when the points file does not
\* exist, and the orchestrator merges the codes of its sub-scripts (1 among
\* them) with max.
ExitCodeConvention == Ended => exit_code \in ExitCodes

\* The run gave up on a connection to the server that failed with a timeout
\* or connection error.
Unreachable ==
    /\ exc = "dependency"
    /\ raised_at \in {"m_connect", "a_connect"} \cup ConnectPcs

\* C22: a run that cannot reach the media server ends with exit code 20. The
\* orchestrator's handler around run_pipeline merges 30 for every exception,
\* the Timeout re-raised after the last retry included.
UnreachableIsDependencyFailed == (Ended /\ Unreachable) => exit_code = 20

\* C23: a refresher run that completed with a failed move ends with exit code
\* 10. apply returns no order_stats, so the caller counts no failed move.
FailedMoveIsPartial ==
    (Ended /\ entry_point \in Refreshers /\ result = "returned"
       /\ failed_moves # <<>>) => exit_code = 10

\* C26: an interrupt during ordering ends the refresher at once with exit code
\* 130: no call is issued after it and the moves already applied stay; a run
\* that has ended takes no further step.
InterruptStopsOrdering ==
    [][/\ (entry_point \in Refreshers /\ pc \in OrderPcs /\ interrupted' /\ ~interrupted)
          => /\ pc' = "exited"
             /\ exit_code' = 130
             /\ calls' = calls
             /\ moves' = moves
             /\ serverVars' = serverVars
       /\ ~Ended]_vars

\* An interrupt caught the ordering after at least one move was applied.
InterruptWitness ==
    /\ entry_point = "movie_refresher"
    /\ Ended /\ interrupted
    /\ exit_code = 130
    /\ moves # <<>>
    /\ o_idx < Len(ordered_items)

\* C29: a refresher's connection is made through the retry policy, so a run
\* that failed at the connection with a transient error tried it more than
\* once. PlexServer() is called directly, once.
ConnectRetried ==
    (Ended /\ entry_point \in Refreshers /\ raised_at = "m_connect"
       /\ exc = "dependency") => connects > 1

\* The calls that change the server.
MutatingOps == {"create", "add", "remove", "sort", "move", "art"}

\* C30: a dry run of a refresher issues no mutating call: none is logged, no
\* move is applied and the server stays as it was.
DryRunNoMutation ==
    [][(entry_point \in Refreshers /\ dry_run)
         => /\ {c.op : c \in calls'} \cap MutatingOps = {}
            /\ moves' = <<>>
            /\ serverVars' = serverVars]_vars

\* A dry run resolved items and went through to its summary.
DryRunWitness ==
    /\ entry_point \in Refreshers /\ dry_run
    /\ Ended /\ ~interrupted
    /\ rating_keys # <<>>
    /\ connects = 1
    /\ exit_code = 0

\* ------------------------------------------------------- ordering, results
\* The items of the moves that succeeded, in the order the moves were made.
MovedItems ==
    LET okm == SelectSeq(moves, LAMBDA m : m.ok)
    IN [n \in 1..Len(okm) |-> okm[n].item]

\* C31: whatever moves failed and whatever items were skipped, the items whose
\* moves succeeded are the front of the collection, in the relative order they
\* have in ordered_items; this holds after every step of the reordering and
\* when it has finished.
SelfHealingOrder ==
    moves # <<>> =>
        /\ Len(MovedItems) <= Len(members)
        /\ SubSeq(members, 1, Len(MovedItems)) = MovedItems
        /\ MovedItems = SelectSeq(ordered_items, LAMBDA x : x \in Range(MovedItems))

\* C31 witness: the reordering finished with a failed move between two
\* successful ones, and the collection also holds an item that was not moved
\* with success.
SelfHealingWitness ==
    /\ pc = "done"
    /\ Len(moves) = 3
    /\ moves[1].ok /\ ~moves[2].ok /\ moves[3].ok
    /\ Len(members) > Len(MovedItems)
    /\ members[3] = moves[2].item

\* The members that are not in ordered_items, in their order in the collection.
Rest == SelectSeq(members, LAMBDA x : x \notin Range(ordered_items))

\* Every item of ordered_items was moved, and every move succeeded.
AllMoved ==
    /\ ordered_items # <<>>
    /\ successful_moves = Len(ordered_items)
    /\ Len(moves) = Len(ordered_items)

\* C32 as stated: after a run in which every move succeeded the order depends
\* on ordered_items alone, so the run gives the same order from every order
\* the same members could have had before.
OrderFromListAlone ==
    AllMoved => \A p \in Shuffles(members) : ImposeOrder(p, ordered_items) = members

\* C32, amended: the reordering never changes the relative order of the
\* members outside ordered_items; after a run in which every move succeeded
\* the collection is ordered_items followed by those members, and a clean run
\* from any order that has them in that relative order (the order left by this
\* run, or by a partial or interrupted one) gives the same collection.
RerunnableOrder ==
    [][/\ pc \in OrderPcs => Rest' = Rest
       /\ AllMoved' =>
            /\ members' = ordered_items' \o Rest'
            /\ \A p \in Shuffles(members') :
                  SelectSeq(p, LAMBDA x : x \notin Range(ordered_items')) = Rest'
                      => ImposeOrder(p, ordered_items') = members']_vars

\* C32 witness: two items were moved with success in a collection that holds a
\* third, and the run ended.
RerunWitness ==
    /\ AllMoved /\ pc = "done"
    /\ Len(ordered_items) = 2
    /\ Rest # <<>>
    /\ sort_mode = "custom"

\* ------------------------------------------------------------------ backoff
\* C33: the n-th sleep follows the n-th attempt, which failed with a retryable
\* error and was not the last one allowed, and lasts retry_delay *
\* backoff_multiplier^(n - 1); nothing is slept after the last attempt or
\* after a permanent error.
BackoffDelays ==
    mode = "retry" =>
        /\ Len(sleeps) =
              Cardinality({n \in 1..Len(history) :
                              history[n].class = "retryable" /\ n <= max_retries})
        /\ \A n \in 1..Len(sleeps) :
              /\ history[n].class = "retryable"
              /\ sleeps[n] = DEFAULT_RETRY_DELAY * DEFAULT_BACKOFF_MULTIPLIER ^ (n - 1)
        /\ (pc = "done" /\ LastRaised) => Len(sleeps) = Len(history) - 1

\* C33 witness: two retryable failures were each followed by a sleep, of 2
\* and of 4 seconds, and a permanent error then ended the call with no sleep.
BackoffWitness ==
    /\ mode = "retry" /\ pc = "done"
    /\ Len(history) = 3
    /\ LastCall.class = "permanent"
    /\ sleeps = <<2, 4>>

\* ---------------------------------------------------------------- aging out
\* C34: an entry that held p >= 1 points and was suggested in none of the
\* passes since is in the store, with p minus the number of passes, after
\* each of the first p - 1 passes, and is gone after the p-th and from then on.
AgingOut ==
    mode = "age" =>
        \A k \in DOMAIN pre :
            ItemOf(k) = AgedItem =>
                IF passes < pre[k].points
                THEN /\ k \in DOMAIN points_data
                     /\ points_data[k].points = pre[k].points - passes
                ELSE k \notin DOMAIN points_data

\* C34 witness: an entry that began at max_points was still in the store,
\* with one point, after max_points - 1 passes.
AgingWitness ==
    /\ mode = "age"
    /\ passes = MAX_POINTS - 1
    /\ \E k \in DOMAIN pre :
          /\ ItemOf(k) = AgedItem
          /\ pre[k].points = MAX_POINTS
          /\ k \in DOMAIN points_data
          /\ points_data[k].points = 1

\* The same entry is gone after the pass that follows.
AgedOutWitness ==
    /\ mode = "age"
    /\ passes = MAX_POINTS
    /\ last_op = "tv_pass"
    /\ stats.removed >= 1
    /\ \E k \in DOMAIN pre :
          /\ ItemOf(k) = AgedItem
          /\ pre[k].points = MAX_POINTS
          /\ k \notin DOMAIN points_data

\* ------------------------------------------------------ one move per element
\* _apply_custom_order went through its whole loop.
OrderCompleted ==
    /\ Call("sort", <<>>) \in calls
    /\ sort_mode = "custom"
    /\ pc \notin OrderPcs

\* The items of the move calls issued so far, in the order of the calls.
MovedSoFar == [n \in 1..Len(moves) |-> moves[n].item]

\* The failures recorded for a move call that raised.
MoveErrors == SelectSeq(failed_moves, LAMBDA f : f.reason = "error")

\* C35: the reordering issues at most one move call per element of
\* ordered_items, a failed one included: the calls issued are, in order,
\* the members among the elements handled so far, one call each, and every
\* element handled is counted once, as a successful or as a failed move; so
\* when the loop has run to its end the two counts add up to the length of
\* ordered_items.
OneMovePerElement ==
    /\ (pc = "o_loop" \/ OrderCompleted) =>
          /\ Len(moves) <= o_idx
          /\ MovedSoFar = SelectSeq(SubSeq(ordered_items, 1, o_idx),
                                    LAMBDA x : x \in current_collection_items)
          /\ Len(MoveErrors) = Cardinality({n \in 1..Len(moves) : ~moves[n].ok})
          /\ successful_moves = Cardinality({n \in 1..Len(moves) : moves[n].ok})
          /\ successful_moves + Len(failed_moves) = o_idx
    /\ OrderCompleted =>
          successful_moves + Len(failed_moves) = Len(ordered_items)

\* C35 witness: a reordering ran to its end with a move that succeeded, a
\* move that failed and was not tried again, and an element that was skipped.
OneMoveWitness ==
    /\ OrderCompleted
    /\ successful_moves >= 1
    /\ Len(MoveErrors) >= 1
    /\ Len(failed_moves) > Len(MoveErrors)
    /\ Len(moves) < Len(ordered_items)

\* ----------------------------------------------- refreshers and the points file
\* A step of the refresher (the scoring pass is the other process).
RefresherStep == mode = "ref" /\ pc' # pc

\* The refresher wrote the points file.
WroteFile == \E c \in calls : c.op = "write_points"

\* C36: when a scoring pass ran between the refresher's load of the points
\* file and the refresher's write of it, the file holds, after the refresher
\* finished, the keys and the points that the scoring pass saved.
NoLostUpdate ==
    (mode = "ref" /\ pc = "f_done" /\ last_op = "pass_in_window") =>
        StorePoints(store) = StorePoints(points_data)

\* C37: no step of a refresher run changes the set of score keys or the
\* points of an entry in the points store, and the movie refresher does not
\* write when its reordered mapping would lack a key.
RefresherKeepsPoints ==
    [][RefresherStep =>
          /\ StorePoints(store') = StorePoints(store)
          /\ (pc = "f_write" /\ media_type = "movie"
                /\ Range(ordered_keys) # DOMAIN loaded) => calls' = calls]_vars

\* C40: with --dry-run a refresher run performs no write to the points file
\* and leaves what the file holds as it was.
DryRunLeavesFile ==
    [][(RefresherStep /\ dry_run) => (store' = store /\ calls' = calls)]_vars

\* -------------------------------------------------- the tiers, as a partition
\* The keys of the store that take part in the order.
PositiveKeys == {k \in DOMAIN store : store[k] > 0}

\* The tiers as the thresholds define them.
LowKeys == {k \in PositiveKeys : store[k] <= MAX_POINTS \div 3}

MidKeys ==
    {k \in PositiveKeys :
        store[k] > MAX_POINTS \div 3 /\ store[k] <= (2 * MAX_POINTS) \div 3}

HighKeys == {k \in PositiveKeys : store[k] > (2 * MAX_POINTS) \div 3}

\* C38: the tiered order of the movie refresher is a permutation of the keys
\* with points > 0: each of them once, no key with points <= 0; and the tier
\* lists it is built from are the low, mid and high sets of the thresholds
\* max_points // 3 and (2 * max_points) // 3, which share no key and
\* together hold every key with points > 0.
TiersPartition ==
    (mode = "tier" /\ pc = "done") =>
        /\ \A k \in PositiveKeys :
              Cardinality({i \in 1..Len(ordered_keys) : ordered_keys[i] = k}) = 1
        /\ \A i \in 1..Len(ordered_keys) : ordered_keys[i] \in PositiveKeys
        /\ tier_lists(store) = [t \in Tiers |->
              IF t = "low" THEN LowKeys ELSE IF t = "mid" THEN MidKeys ELSE HighKeys]
        /\ \A k \in PositiveKeys :
              Cardinality({t \in Tiers : k \in tier_lists(store)[t]}) = 1

\* C38 witness: an order was built from a store with a key without points,
\* a key on the upper threshold of the low tier and a key on the upper
\* threshold of the mid tier.
TiersPartitionWitness ==
    /\ mode = "tier" /\ pc = "done"
    /\ \E a, b, c \in DOMAIN store :
          /\ store[a] = 0
          /\ store[b] = MAX_POINTS \div 3
          /\ store[c] = (2 * MAX_POINTS) \div 3
          /\ b \in LowKeys /\ c \in MidKeys
          /\ Range(ordered_keys) = {b, c}

\* ------------------------------------------------ duplicates among the suggested
\* A list without its repeated elements: the first occurrence of each stays.
RECURSIVE Dedup(_)
Dedup(s) ==
    IF s = <<>> THEN <<>>
    ELSE LET front == Dedup(SubSeq(s, 1, Len(s) - 1))
             x == s[Len(s)]
         IN IF x \in Range(front) THEN front ELSE Append(front, x)

\* A TV scoring pass leaves the store that the de-duplicated recommendations
\* give.
TvDuplicatesBoostOnce ==
    (mode = "score" /\ passes' = passes + 1) =>
        \E idx \in ExistingTvdbToKey(points_data) :
            points_data' = tv_points_update(points_data, Dedup(recs'), tvdb_known', idx).pd

\* build_final_items_with_points leaves the store that the de-duplicated
\* items of this run give.
MovieDuplicatesBoostOnce ==
    (mode = "refresh" /\ pc = "r_collection" /\ last_op' = "legacy_pass") =>
        movie_points' =
            build_final_items_with_points(existing_items', Dedup(plex_movies_this_run),
                                          movie_points).points_data

\* C39: in one scoring pass an item that occurs more than once among the
\* suggested items is boosted as if it occurred once: the store after the
\* pass is the store that the de-duplicated suggestion list gives.
DuplicatesBoostOnce ==
    [][TvDuplicatesBoostOnce /\ MovieDuplicatesBoostOnce]_vars

====
